---- MODULE Spec2Model ----
(***************************************************************************)
(* Verification model of the resume-tailoring extension:                   *)
(*   - normalizeText, computeDiffs / buildFinalText and the accept         *)
(*     toggles, extractKeywords, the side panel's scrape, deep-scrape      *)
(*     and tailoring handlers          (src/app.js)                        *)
(*   - parseDocxStructure, mapTextToRuns, rebuildDocx (src/background.js)  *)
(*   - fallbackParseJob, parseJobWithLLM              (src/scraper)        *)
(*   - waitForTabLoad                                 (src/popup.js)       *)
(*   - scrapeUrl                              (src/unnamed/part_000)       *)
(*                                                                         *)
(* A text is a sequence of one-character strings.  Each component has its  *)
(* own specification (SpecNorm, SpecDiff, SpecMap, SpecMapLive, SpecJob,   *)
(* SpecLlm, SpecApp, SpecSession, SpecKw, SpecRebuild, SpecTab, SpecParse, *)
(* SpecScrapeUrl) over the shared variables; the variables of the other    *)
(* components stay idle.                                                   *)
(***************************************************************************)
EXTENDS Integers, Sequences, FiniteSets, TLC

VARIABLES
    \* normalizeText: the argument, the result, the result of a second pass
    nText, nOnce, nTwice, nPc,
    \* diff review: the two texts handed to computeDiffs and what the diff
    \* library returns for them, the session object `state` of app.js,
    \* elements.finalText.value, the last operation run
    dOriginal, dCandidate, dDiffs, state, finalText, lastOp,
    \* mapTextToRuns: its arguments, what the diff library returns for the
    \* two texts, the forEach position, the locals of the function, the
    \* position in its code and the returned list
    originalText, newText, runs, mDiffs, segIdx, remaining,
    currentRunIdx, currentRunCharIdx, newRuns, mPc, mapped,
    \* fallbackParseJob: its arguments, the non-blank lines, the loop index,
    \* the locals currentSection, sections and result, the position in its
    \* code
    rawText, scrapedData, lines, lineIdx, currentSection, sections,
    jobResult, jPc,
    \* parseJobWithLLM: settings.llmMode, the caller it picks, the local
    \* responseText, the returned object, the position in its code
    llmMode, llmCaller, responseText, parsedJob, lPc,
    \* the side panel: the stored settings, the values of the form fields and
    \* the status line, the operations started by clicks (each with its
    \* locals and its position), the network requests issued so far
    settings, elements, ops, netCalls,
    \* extractKeywords: its arguments, the returned list, the position in its
    \* code
    kwText, kwLimit, kwResult, kPc,
    \* rebuildDocx: the DOCX handed over, the argument modifiedRuns,
    \* word/document.xml in the loaded archive, the returned blob, the
    \* message of the error thrown, the position in its code
    docx, modifiedRuns, zipDocument, rebuilt, rbError, rbPc,
    \* waitForTabLoad: its arguments, the time since the timer was set,
    \* whether the timer is set and onUpdated is a listener, the promise, the
    \* calls of resolve and reject, the events onUpdated has received, the
    \* events fired
    awaitedTab, timeoutMs, elapsedMs, timerSet, listening, promise,
    settleCalls, delivered, fired,
    \* parseDocxStructure: the paragraphs of the document, the loop index,
    \* the runs and the text collected so far, the structure returned, the
    \* error thrown, the position
    psParagraphs, psIdx, pRuns, plainText, structure, psError, psPc,
    \* scrapeUrl: the argument, the position, the created tab, whether it has
    \* finished loading, the calls of executeScript, sendMessage and
    \* tabs.remove, the promise of scrapeUrl and its error
    sUrl, sPc, sTab, loaded, injectCalls, messageCalls, removeCalls,
    sPromise, sError

normVars == <<nText, nOnce, nTwice, nPc>>
diffVars == <<dOriginal, dCandidate, dDiffs, state, finalText, lastOp>>
mapVars == <<originalText, newText, runs, mDiffs, segIdx, remaining,
             currentRunIdx, currentRunCharIdx, newRuns, mPc, mapped>>
jobVars == <<rawText, scrapedData, lines, lineIdx, currentSection, sections,
             jobResult, jPc>>
llmVars == <<llmMode, llmCaller, responseText, parsedJob, lPc>>
appVars == <<settings, elements, ops, netCalls>>
kwVars == <<kwText, kwLimit, kwResult, kPc>>
rebuildVars == <<docx, modifiedRuns, zipDocument, rebuilt, rbError, rbPc>>
tabVars == <<awaitedTab, timeoutMs, elapsedMs, timerSet, listening, promise,
             settleCalls, delivered, fired>>
parseVars == <<psParagraphs, psIdx, pRuns, plainText, structure, psError,
               psPc>>
scrapeVars == <<sUrl, sPc, sTab, loaded, injectCalls, messageCalls,
                removeCalls, sPromise, sError>>
vars == <<nText, nOnce, nTwice, nPc,
          dOriginal, dCandidate, dDiffs, state, finalText, lastOp,
          originalText, newText, runs, mDiffs, segIdx, remaining,
          currentRunIdx, currentRunCharIdx, newRuns, mPc, mapped,
          rawText, scrapedData, lines, lineIdx, currentSection, sections,
          jobResult, jPc,
          llmMode, llmCaller, responseText, parsedJob, lPc,
          settings, elements, ops, netCalls,
          kwText, kwLimit, kwResult, kPc,
          docx, modifiedRuns, zipDocument, rebuilt, rbError, rbPc,
          awaitedTab, timeoutMs, elapsedMs, timerSet, listening, promise,
          settleCalls, delivered, fired,
          psParagraphs, psIdx, pRuns, plainText, structure, psError, psPc,
          sUrl, sPc, sTab, loaded, injectCalls, messageCalls, removeCalls,
          sPromise, sError>>

-----------------------------------------------------------------------------
(* Generic helpers on texts *)

Max(S) == CHOOSE x \in S : \A y \in S : y <= x
Min(S) == CHOOSE x \in S : \A y \in S : x <= y

\* all texts over alphabet A of length at most n
TextsUpTo(A, n) == UNION {[1..k -> A] : k \in 0..n}

\* String.prototype.substring(from) with a 0-based index
Substring(s, from) == SubSeq(s, from + 1, Len(s))

\* the whitespace class shared by the regex \s and String.prototype.trim
IsSpace(c) == c \in {" ", "\n", "\r", "\t"}

RECURSIVE TrimStart(_)
TrimStart(s) ==
    IF s # <<>> /\ IsSpace(Head(s)) THEN TrimStart(Tail(s)) ELSE s

RECURSIVE TrimEnd(_)
TrimEnd(s) ==
    IF s # <<>> /\ IsSpace(s[Len(s)]) THEN TrimEnd(SubSeq(s, 1, Len(s) - 1)) ELSE s

\* String.prototype.trim
Trim(s) == TrimEnd(TrimStart(s))

-----------------------------------------------------------------------------
(* normalizeText, src/app.js:60-66 *)

MaxNormLen == 5
NormAlphabet == {"a", "-", " ", "\n", "\r"}

\* .replace(/\r/g, '')
StripCR(s) == SelectSeq(s, LAMBDA c : c # "\r")

\* last index of the maximal whitespace run that starts at i (i-1 if none)
RECURSIVE SpaceRunEnd(_, _)
SpaceRunEnd(s, i) ==
    IF i <= Len(s) /\ IsSpace(s[i]) THEN SpaceRunEnd(s, i + 1) ELSE i - 1

\* The match of /-\s+\n/ that starts at i: the index of its last character,
\* or 0 when there is none.  \s+ is greedy and needs at least one
\* character, so the closing \n is the last newline of the whitespace run
\* that is not the run's first character.
HyphenBreakEnd(s, i) ==
    IF s[i] # "-" THEN 0
    ELSE LET e == SpaceRunEnd(s, i + 1)
             ends == {m \in (i + 2)..e : s[m] = "\n"}
         IN  IF ends = {} THEN 0 ELSE Max(ends)

\* .replace(/-\s+\n/g, ''): leftmost matches, scanning on after each one
RECURSIVE StripHyphenBreaks(_, _)
StripHyphenBreaks(s, i) ==
    IF i > Len(s) THEN <<>>
    ELSE LET m == HyphenBreakEnd(s, i)
         IN  IF m = 0 THEN <<s[i]>> \o StripHyphenBreaks(s, i + 1)
             ELSE StripHyphenBreaks(s, m + 1)

\* last index of the maximal run of newlines that starts at i (i-1 if none)
RECURSIVE NewlineRunEnd(_, _)
NewlineRunEnd(s, i) ==
    IF i <= Len(s) /\ s[i] = "\n" THEN NewlineRunEnd(s, i + 1) ELSE i - 1

\* .replace(/\n{3,}/g, '\n\n')
RECURSIVE CollapseNewlines(_, _)
CollapseNewlines(s, i) ==
    IF i > Len(s) THEN <<>>
    ELSE LET e == NewlineRunEnd(s, i)
         IN  IF e - i + 1 >= 3 THEN <<"\n", "\n">> \o CollapseNewlines(s, e + 1)
             ELSE <<s[i]>> \o CollapseNewlines(s, i + 1)

\* a slip in the order of the chain: trim() applied first instead of last
normalizeText_trimFirst(text) ==
    CollapseNewlines(StripHyphenBreaks(StripCR(Trim(text)), 1), 1)

normalizeText(text) ==
    Trim(CollapseNewlines(StripHyphenBreaks(StripCR(text), 1), 1))

NormUnchangedOthers ==
    UNCHANGED <<diffVars, mapVars, jobVars, llmVars, appVars, kwVars, rebuildVars, tabVars, parseVars, scrapeVars>>

NormIdle ==
    /\ nText = <<>>
    /\ nOnce = <<>>
    /\ nTwice = <<>>
    /\ nPc = "idle"

NormStart ==
    /\ nText \in TextsUpTo(NormAlphabet, MaxNormLen)
    /\ nOnce = <<>>
    /\ nTwice = <<>>
    /\ nPc = "input"

\* normalizeText(text)
Normalize ==
    /\ nPc = "input"
    /\ nOnce' = normalizeText(nText)
    /\ nPc' = "once"
    /\ UNCHANGED <<nText, nTwice>>
    /\ NormUnchangedOthers

\* normalizeText applied to its own result
NormalizeAgain ==
    /\ nPc = "once"
    /\ nTwice' = normalizeText(nOnce)
    /\ nPc' = "twice"
    /\ UNCHANGED <<nText, nOnce>>
    /\ NormUnchangedOthers

NormNext == Normalize \/ NormalizeAgain

-----------------------------------------------------------------------------
(* The diff engine: computeDiffs, buildFinalText, accept toggles
   (src/app.js:564-666, 749-760, 832-835) *)

DIFF_DELETE == -1
DIFF_INSERT == 1
DIFF_EQUAL == 0

MaxDiffLen == 2     \* longest original text
MaxSegments == 4    \* most segments in an edit script
DiffAlphabet == {"a", "b"}
\* the texts an INSERT segment may bring
InsertTexts == {<<"x">>, <<"b", "x">>}

\* groupId: null is <<>>, the number n is <<n>>
NULL == <<>>

\* The edit scripts of at most n segments that consume exactly `src`: each
\* segment has a non-empty text; EQUAL and DELETE segments take a prefix
\* of what is left of `src`, INSERT segments bring a text of `ins`.
RECURSIVE EditScripts(_, _, _)
EditScripts(src, n, ins) ==
    (IF src = <<>> THEN {<<>>} ELSE {})
    \cup
    (IF n = 0 THEN {}
     ELSE {<<[op |-> DIFF_INSERT, text |-> t]>> \o rest :
               t \in ins,
               rest \in EditScripts(src, n - 1, ins)}
          \cup
          UNION {{<<[op |-> o, text |-> SubSeq(src, 1, k)]>> \o rest :
                      o \in {DIFF_EQUAL, DIFF_DELETE},
                      rest \in EditScripts(Substring(src, k), n - 1, ins)} :
                 k \in 1..Len(src)})

\* the text an edit script produces: its EQUAL and INSERT texts in order
RECURSIVE TargetText(_)
TargetText(d) ==
    IF d = <<>> THEN <<>>
    ELSE (IF Head(d).op = DIFF_DELETE THEN <<>> ELSE Head(d).text)
             \o TargetText(Tail(d))

\* the text an edit script consumes: its EQUAL and DELETE texts in order
RECURSIVE SourceText(_)
SourceText(d) ==
    IF d = <<>> THEN <<>>
    ELSE (IF Head(d).op = DIFF_INSERT THEN <<>> ELSE Head(d).text)
             \o SourceText(Tail(d))

\* dmp.diff_main + dmp.diff_cleanupSemantic: the library is not part of the
\* sources; what it returns is an edit script from text1 to text2 whose
\* segments are not empty.
IsDiffOf(d, text1, text2) ==
    /\ \A i \in 1..Len(d) : d[i].text # <<>>
    /\ SourceText(d) = text1
    /\ TargetText(d) = text2

\* a slip: the counter advances on every non-EQUAL segment
GroupCounter_everySegment(diffs, i) ==
    Cardinality({j \in 1..i : diffs[j].op # DIFF_EQUAL}) - 1

\* `let groupId` after the map callback has handled diffs[1..i]
RECURSIVE GroupCounter(_, _)
GroupCounter(diffs, i) ==
    IF i = 0 THEN -1
    ELSE LET g == GroupCounter(diffs, i - 1)
         IN  IF diffs[i].op = DIFF_EQUAL THEN g
             ELSE IF i = 1 \/ diffs[i - 1].op = DIFF_EQUAL THEN g + 1
             ELSE g

\* diffs.map(...): every segment with its groupId
DiffsWithGroup(diffs) ==
    [i \in 1..Len(diffs) |->
        [op |-> diffs[i].op,
         text |-> diffs[i].text,
         groupId |-> IF diffs[i].op = DIFF_EQUAL THEN NULL
                     ELSE <<GroupCounter(diffs, i)>>]]

\* `groups` after the forEach callback has handled segments[1..i]
RECURSIVE Groups(_, _)
Groups(segments, i) ==
    IF i = 0 THEN <<>>
    ELSE LET groups == Groups(segments, i - 1)
             segment == segments[i]
         IN  IF segment.groupId = NULL THEN groups
             ELSE LET id == segment.groupId[1]
                      pushed ==
                          IF \E k \in 1..Len(groups) : groups[k].id = id
                          THEN groups
                          ELSE Append(groups, [id |-> id,
                                               deleteText |-> <<>>,
                                               insertText |-> <<>>,
                                               accepted |-> TRUE])
                      \* groups.find: the first group with that id
                      k == Min({j \in 1..Len(pushed) : pushed[j].id = id})
                  IN  IF segment.op = DIFF_DELETE
                      THEN [pushed EXCEPT ![k].deleteText = @ \o segment.text]
                      ELSE IF segment.op = DIFF_INSERT
                      THEN [pushed EXCEPT ![k].insertText = @ \o segment.text]
                      ELSE pushed

\* computeDiffs, given what the diff library returned
computeDiffs(diffs) ==
    LET diffsWithGroup == DiffsWithGroup(diffs)
    IN  [diffsWithGroup |-> diffsWithGroup,
         groups |-> Groups(diffsWithGroup, Len(diffsWithGroup))]

\* a slip: every segment looks up the first group's flag
AcceptanceGet_firstGroup(diffGroups, id) ==
    IF diffGroups = <<>> THEN FALSE ELSE diffGroups[1].accepted

\* acceptance.get(id) on new Map(diffGroups.map(g => [g.id, g.accepted])):
\* the last entry with that key, undefined (falsy) when there is none
AcceptanceGet(diffGroups, id) ==
    LET ks == {k \in 1..Len(diffGroups) : diffGroups[k].id = id}
    IN  IF ks = {} THEN FALSE ELSE diffGroups[Max(ks)].accepted

\* a slip: the else-if branch for rejected DELETE text is missing
EmitsSegment_noRejectBranch(segment, accepted) ==
    accepted /\ segment.op = DIFF_INSERT

\* whether the forEach callback of buildFinalText appends a grouped segment
EmitsSegment(segment, accepted) ==
    \/ accepted /\ segment.op = DIFF_INSERT
    \/ ~accepted /\ segment.op = DIFF_DELETE

\* `result` after the forEach callback has handled segments[1..i]
RECURSIVE ResultAfter(_, _, _)
ResultAfter(segments, diffGroups, i) ==
    IF i = 0 THEN <<>>
    ELSE LET result == ResultAfter(segments, diffGroups, i - 1)
             segment == segments[i]
         IN  IF segment.groupId = NULL THEN result \o segment.text
             ELSE IF EmitsSegment(segment,
                                  AcceptanceGet(diffGroups, segment.groupId[1]))
             THEN result \o segment.text
             ELSE result

\* buildFinalText() run on a session object st
BuildFinalTextOf(st) ==
    IF Len(st.diffsWithGroup) = 0
    THEN (IF st.tailoredText # <<>> THEN st.tailoredText ELSE st.resumeText)
    ELSE ResultAfter(st.diffsWithGroup, st.diffGroups, Len(st.diffsWithGroup))

buildFinalText == BuildFinalTextOf(state)

\* const state = {...} as the script leaves it
InitialState ==
    [resumeText |-> <<>>, tailoredText |-> <<>>,
     diffsWithGroup |-> <<>>, diffGroups |-> <<>>]

DiffUnchangedOthers ==
    UNCHANGED <<normVars, mapVars, jobVars, llmVars, appVars, kwVars, rebuildVars, tabVars, parseVars, scrapeVars>>

DiffIdle ==
    /\ dOriginal = <<>>
    /\ dCandidate = <<>>
    /\ dDiffs = <<>>
    /\ state = InitialState
    /\ finalText = <<>>
    /\ lastOp = "none"

\* any original text, and any edit script the library may answer with for
\* it and the candidate text
DiffStart ==
    /\ dOriginal \in TextsUpTo(DiffAlphabet, MaxDiffLen)
    /\ dDiffs \in EditScripts(dOriginal, MaxSegments, InsertTexts)
    /\ dCandidate = TargetText(dDiffs)
    /\ state = InitialState
    /\ finalText = <<>>
    /\ lastOp = "none"

\* generateTailoredResume, lines 749-760: store both texts, compute and
\* store the diff, render it and show buildFinalText()
ComputeDiffs ==
    /\ IsDiffOf(dDiffs, dOriginal, dCandidate)
    /\ LET diffResult == computeDiffs(dDiffs)
           st == [resumeText |-> dOriginal,
                  tailoredText |-> dCandidate,
                  diffsWithGroup |-> diffResult.diffsWithGroup,
                  diffGroups |-> diffResult.groups]
       IN  /\ state' = st
           /\ finalText' = BuildFinalTextOf(st)
    /\ lastOp' = "computeDiffs"
    /\ UNCHANGED <<dOriginal, dCandidate, dDiffs>>
    /\ DiffUnchangedOthers

\* the 'change' listener of one group's checkbox (renderDiffs)
ToggleAccepted(k) ==
    /\ k \in 1..Len(state.diffGroups)
    /\ state' = [state EXCEPT !.diffGroups[k].accepted = ~@]
    /\ lastOp' = "toggle"
    /\ UNCHANGED <<dOriginal, dCandidate, dDiffs, finalText>>
    /\ DiffUnchangedOthers

\* a slip: building the final text resets every accept flag
StateAfterBuild_resetsFlags(st) ==
    [st EXCEPT !.diffGroups =
        [k \in 1..Len(st.diffGroups) |->
            [st.diffGroups[k] EXCEPT !.accepted = TRUE]]]

\* the session object after buildFinalText has run: it reads
\* state.diffsWithGroup and state.diffGroups and assigns neither
StateAfterBuild(st) == st

applyDiffSelections ==
    /\ lastOp # "none"
    /\ finalText' = buildFinalText
    /\ state' = StateAfterBuild(state)
    /\ lastOp' = "apply"
    /\ UNCHANGED <<dOriginal, dCandidate, dDiffs>>
    /\ DiffUnchangedOthers

DiffNext ==
    \/ ComputeDiffs
    \/ \E k \in 1..MaxSegments : ToggleAccepted(k)
    \/ applyDiffSelections

-----------------------------------------------------------------------------
(* mapTextToRuns, src/background.js:270-376, on the run list and plain text
   that parseDocxStructure produces (src/background.js:113-202) *)

MaxRuns == 2          \* most runs in the original list
MaxMapSegments == 3   \* most segments in the edit script
\* the lengths a run's text may have (a run with formatting may be empty)
RunLengths == {0, 1, 2}
\* run k is written in its own letter, so every character of the original
\* text tells which run it came from
RunLetter(k) == <<"a", "b", "c", "d">>[k]
MapInsertTexts == {<<"x">>}

\* properties: {} of a run that has none
EmptyProperties == 0

\* The run lists parseDocxStructure can build: run k has its own properties
\* object k and, when the DOM parser was used, its own cloned rPr node
\* <<k>> (null with fast-xml-parser); paragraph indices start at 0 and
\* never decrease; runIndex counts the runs of a paragraph.  The xmlNode
\* field, which mapTextToRuns never reads, is left out.
RunLists ==
    UNION {
        {[k \in 1..n |->
            [text |-> [i \in 1..len[k] |-> RunLetter(k)],
             properties |-> k,
             paragraphIndex |-> Cardinality({j \in 2..k : brk[j]}),
             runIndex |-> Cardinality({j \in 1..(k - 1) :
                              \A m \in (j + 1)..k : ~brk[m]}),
             originalRPr |-> IF dom THEN <<k>> ELSE NULL]] :
           len \in [1..n -> RunLengths],
           brk \in [1..n -> BOOLEAN],
           dom \in BOOLEAN} :
        n \in 0..MaxRuns}

\* the texts of a run list, concatenated in order
RECURSIVE RunsText(_)
RunsText(rs) ==
    IF rs = <<>> THEN <<>> ELSE Head(rs).text \o RunsText(Tail(rs))

\* plainText as parseDocxStructure accumulates it over paragraphs p..last:
\* the texts of each paragraph's runs, and a "\n" after every paragraph
\* but the last
RECURSIVE ParagraphsText(_, _, _)
ParagraphsText(rs, p, last) ==
    IF p > last THEN <<>>
    ELSE RunsText(SelectSeq(rs, LAMBDA r : r.paragraphIndex = p))
            \o (IF p < last THEN <<"\n">> ELSE <<>>)
            \o ParagraphsText(rs, p + 1, last)

\* parseDocxStructure's plainText: plainText.trim()
PlainTextOf(rs) ==
    IF rs = <<>> THEN <<>>
    ELSE Trim(ParagraphsText(rs, 0, rs[Len(rs)].paragraphIndex))

\* a slip: the copy forgets the formatting handle
CopyRun_noRPr(run, runIndex) ==
    [text |-> run.text,
     properties |-> run.properties,
     paragraphIndex |-> run.paragraphIndex,
     runIndex |-> runIndex,
     originalRPr |-> NULL]

\* the object literal that copies a run: same text, properties,
\* paragraphIndex and originalRPr, the given runIndex
CopyRun(run, runIndex) ==
    [text |-> run.text,
     properties |-> run.properties,
     paragraphIndex |-> run.paragraphIndex,
     runIndex |-> runIndex,
     originalRPr |-> run.originalRPr]

\* a slip: no fallback to the last run when the cursor is past the end
SourceRun_noFallback(rs, idx) ==
    IF idx < Len(rs) THEN <<rs[idx + 1]>> ELSE <<>>

\* sourceRun of an INSERT: runs[currentRunIdx], or the last run when the
\* cursor is past the end; <<>> stands for undefined
SourceRun(rs, idx) ==
    IF idx < Len(rs) THEN <<rs[idx + 1]>>
    ELSE IF Len(rs) > 0 THEN <<rs[Len(rs)]>>
    ELSE <<>>

\* the run pushed for an INSERT segment: sourceRun?.x || default
InsertedRun(text, sourceRun, runIndex) ==
    [text |-> text,
     properties |-> IF sourceRun = <<>> THEN EmptyProperties
                    ELSE sourceRun[1].properties,
     paragraphIndex |-> IF sourceRun = <<>> THEN 0
                        ELSE sourceRun[1].paragraphIndex,
     runIndex |-> runIndex,
     originalRPr |-> IF sourceRun = <<>> THEN NULL
                     ELSE sourceRun[1].originalRPr]

MapLocalsInitial ==
    /\ segIdx = 0
    /\ remaining = <<>>
    /\ currentRunIdx = 0
    /\ currentRunCharIdx = 0
    /\ newRuns = <<>>
    /\ mapped = <<>>

MapIdle ==
    /\ originalText = <<>>
    /\ newText = <<>>
    /\ runs = <<>>
    /\ mDiffs = <<>>
    /\ MapLocalsInitial
    /\ mPc = "idle"

\* a run list and its plain text from parseDocxStructure, and any edit
\* script the diff library may answer with for it and the new text
MapStart ==
    /\ runs \in RunLists
    /\ originalText = PlainTextOf(runs)
    /\ mDiffs \in EditScripts(originalText, MaxMapSegments, MapInsertTexts)
    /\ newText = TargetText(mDiffs)
    /\ MapLocalsInitial
    /\ mPc = "call"

MapUnchangedOthers ==
    UNCHANGED <<normVars, diffVars, jobVars, llmVars, appVars, kwVars, rebuildVars, tabVars, parseVars, scrapeVars>>
MapArgs == <<originalText, newText, runs, mDiffs>>
MapLocals == <<segIdx, remaining, currentRunIdx, currentRunCharIdx, newRuns>>

\* lines 271-274: no runs
ReturnNoRuns ==
    /\ mPc = "call"
    /\ Len(runs) = 0
    /\ mapped' = <<>>
    /\ mPc' = "returned"
    /\ UNCHANGED <<MapArgs, MapLocals>>
    /\ MapUnchangedOthers

\* lines 276-279: an empty text
ReturnEmptyText ==
    /\ mPc = "call"
    /\ Len(runs) # 0
    /\ originalText = <<>> \/ newText = <<>>
    /\ mapped' = runs
    /\ mPc' = "returned"
    /\ UNCHANGED <<MapArgs, MapLocals>>
    /\ MapUnchangedOthers

\* lines 281-290: the text is unchanged
ReturnUnchanged ==
    /\ mPc = "call"
    /\ Len(runs) # 0
    /\ originalText # <<>> /\ newText # <<>>
    /\ originalText = newText
    /\ mapped' = [k \in 1..Len(runs) |-> CopyRun(runs[k], runs[k].runIndex)]
    /\ mPc' = "returned"
    /\ UNCHANGED <<MapArgs, MapLocals>>
    /\ MapUnchangedOthers

\* lines 292-305: diff the texts and set up the cursor
StartDiff ==
    /\ mPc = "call"
    /\ Len(runs) # 0
    /\ originalText # <<>> /\ newText # <<>>
    /\ originalText # newText
    /\ IsDiffOf(mDiffs, originalText, newText)
    /\ newRuns' = <<>>
    /\ currentRunIdx' = 0
    /\ currentRunCharIdx' = 0
    /\ segIdx' = 0
    /\ mPc' = "forEach"
    /\ UNCHANGED <<MapArgs, remaining, mapped>>
    /\ MapUnchangedOthers

\* lines 307-310: the callback starts on an EQUAL segment
BeginEqual ==
    /\ mPc = "forEach"
    /\ segIdx < Len(mDiffs)
    /\ mDiffs[segIdx + 1].op = DIFF_EQUAL
    /\ segIdx' = segIdx + 1
    /\ remaining' = mDiffs[segIdx + 1].text
    /\ mPc' = "equal"
    /\ UNCHANGED <<MapArgs, currentRunIdx, currentRunCharIdx, newRuns, mapped>>
    /\ MapUnchangedOthers

\* a slip: the split forgets to cut the run's text
RunPiece_wholeRun(run, from, take) ==
    run.text

\* currentRun.text.substring(currentRunCharIdx, currentRunCharIdx + take)
RunPiece(run, from, take) ==
    SubSeq(run.text, from + 1, from + take)

\* a slip: the cursor leaves a run one character late
RunExhausted_late(charIdx, run) ==
    charIdx > Len(run.text)

\* currentRunCharIdx >= currentRun.text.length
RunExhausted(charIdx, run) ==
    charIdx >= Len(run.text)

\* lines 311-345: one iteration of the EQUAL loop
EqualStep ==
    /\ mPc = "equal"
    /\ Len(remaining) > 0 /\ currentRunIdx < Len(runs)
    /\ LET currentRun == runs[currentRunIdx + 1]
           runRemaining == Len(currentRun.text) - currentRunCharIdx
           take == Min({Len(remaining), runRemaining})
       IN  IF currentRunCharIdx = 0 /\ take = Len(currentRun.text)
           THEN /\ newRuns' = Append(newRuns, CopyRun(currentRun, Len(newRuns)))
                /\ remaining' = Substring(remaining, take)
                /\ currentRunIdx' = currentRunIdx + 1
                /\ currentRunCharIdx' = 0
           ELSE LET runText == RunPiece(currentRun, currentRunCharIdx, take)
                    piece == [CopyRun(currentRun, Len(newRuns))
                                 EXCEPT !.text = runText]
                IN  /\ newRuns' = Append(newRuns, piece)
                    /\ remaining' = Substring(remaining, take)
                    /\ IF RunExhausted(currentRunCharIdx + take, currentRun)
                       THEN /\ currentRunIdx' = currentRunIdx + 1
                            /\ currentRunCharIdx' = 0
                       ELSE /\ currentRunIdx' = currentRunIdx
                            /\ currentRunCharIdx' = currentRunCharIdx + take
    /\ UNCHANGED <<MapArgs, segIdx, mPc, mapped>>
    /\ MapUnchangedOthers

\* line 311: the EQUAL loop ends
EqualDone ==
    /\ mPc = "equal"
    /\ ~(Len(remaining) > 0 /\ currentRunIdx < Len(runs))
    /\ mPc' = "forEach"
    /\ UNCHANGED <<MapArgs, MapLocals, mapped>>
    /\ MapUnchangedOthers

\* lines 347-356: an INSERT segment
InsertSegment ==
    /\ mPc = "forEach"
    /\ segIdx < Len(mDiffs)
    /\ mDiffs[segIdx + 1].op = DIFF_INSERT
    /\ segIdx' = segIdx + 1
    /\ newRuns' = Append(newRuns,
                         InsertedRun(mDiffs[segIdx + 1].text,
                                     SourceRun(runs, currentRunIdx),
                                     Len(newRuns)))
    /\ UNCHANGED <<MapArgs, remaining, currentRunIdx, currentRunCharIdx, mPc, mapped>>
    /\ MapUnchangedOthers

\* lines 357-359: the callback starts on a DELETE segment
BeginDelete ==
    /\ mPc = "forEach"
    /\ segIdx < Len(mDiffs)
    /\ mDiffs[segIdx + 1].op = DIFF_DELETE
    /\ segIdx' = segIdx + 1
    /\ remaining' = mDiffs[segIdx + 1].text
    /\ mPc' = "delete"
    /\ UNCHANGED <<MapArgs, currentRunIdx, currentRunCharIdx, newRuns, mapped>>
    /\ MapUnchangedOthers

\* lines 360-371: one iteration of the DELETE loop
DeleteStep ==
    /\ mPc = "delete"
    /\ Len(remaining) > 0 /\ currentRunIdx < Len(runs)
    /\ LET currentRun == runs[currentRunIdx + 1]
           runRemaining == Len(currentRun.text) - currentRunCharIdx
           skip == Min({Len(remaining), runRemaining})
       IN  /\ remaining' = Substring(remaining, skip)
           /\ IF RunExhausted(currentRunCharIdx + skip, currentRun)
              THEN /\ currentRunIdx' = currentRunIdx + 1
                   /\ currentRunCharIdx' = 0
              ELSE /\ currentRunIdx' = currentRunIdx
                   /\ currentRunCharIdx' = currentRunCharIdx + skip
    /\ UNCHANGED <<MapArgs, segIdx, newRuns, mPc, mapped>>
    /\ MapUnchangedOthers

\* line 360: the DELETE loop ends
DeleteDone ==
    /\ mPc = "delete"
    /\ ~(Len(remaining) > 0 /\ currentRunIdx < Len(runs))
    /\ mPc' = "forEach"
    /\ UNCHANGED <<MapArgs, MapLocals, mapped>>
    /\ MapUnchangedOthers

\* line 375: return newRuns
ReturnNewRuns ==
    /\ mPc = "forEach"
    /\ segIdx = Len(mDiffs)
    /\ mapped' = newRuns
    /\ mPc' = "returned"
    /\ UNCHANGED <<MapArgs, MapLocals>>
    /\ MapUnchangedOthers

MapNext ==
    \/ ReturnNoRuns
    \/ ReturnEmptyText
    \/ ReturnUnchanged
    \/ StartDiff
    \/ BeginEqual
    \/ EqualStep
    \/ EqualDone
    \/ InsertSegment
    \/ BeginDelete
    \/ DeleteStep
    \/ DeleteDone
    \/ ReturnNewRuns

-----------------------------------------------------------------------------
(* fallbackParseJob, src/scraper/jobParser.js:149-208 *)

MaxJobLines == 2    \* most vocabulary lines in a generated listing text

HeadingLimit == 100         \* line.length < 100
DescriptionLimit == 3000    \* rawText.substring(0, Math.min(3000, ...))

\* JavaScript values: a string, or undefined (a property that is absent)
Str(s) == [type |-> "string", chars |-> s]
Undefined == [type |-> "undefined", chars |-> <<>>]
Truthy(v) == v.type = "string" /\ v.chars # <<>>

LogicalOr_noDefault(value, fallback) ==
    value

\* value || fallback
LogicalOr(value, fallback) ==
    IF Truthy(value) THEN value ELSE fallback

UpperLetters ==
    <<"A", "B", "C", "D", "E", "F", "G", "H", "I", "J", "K", "L", "M",
      "N", "O", "P", "Q", "R", "S", "T", "U", "V", "W", "X", "Y", "Z">>
LowerLetters ==
    <<"a", "b", "c", "d", "e", "f", "g", "h", "i", "j", "k", "l", "m",
      "n", "o", "p", "q", "r", "s", "t", "u", "v", "w", "x", "y", "z">>

LowerChar(c) ==
    IF \E k \in 1..26 : UpperLetters[k] = c
    THEN LowerLetters[CHOOSE k \in 1..26 : UpperLetters[k] = c]
    ELSE c

\* String.prototype.toLowerCase, character by character
ToLowerCase(s) ==
    LET lowered == [k \in 1..Len(s) |-> LowerChar(s[k])]
    IN  SubSeq(lowered, 1, Len(s))

\* s has kw at the 1-based position p
StartsAt(s, p, kw) ==
    p + Len(kw) - 1 <= Len(s) /\ SubSeq(s, p, p + Len(kw) - 1) = kw

\* String.prototype.includes
Includes(s, kw) == \E p \in 1..Len(s) : StartsAt(s, p, kw)

\* String.prototype.split('\n')
RECURSIVE Split(_)
Split(s) ==
    IF \A k \in 1..Len(s) : s[k] # "\n"
    THEN <<s>>
    ELSE LET p == Min({k \in 1..Len(s) : s[k] = "\n"})
         IN  <<SubSeq(s, 1, p - 1)>> \o Split(SubSeq(s, p + 1, Len(s)))

\* Array.prototype.join(sep)
RECURSIVE Join(_, _)
Join(parts, sep) ==
    IF parts = <<>> THEN <<>>
    ELSE IF Len(parts) = 1 THEN parts[1]
    ELSE parts[1] \o sep \o Join(Tail(parts), sep)

NotBlank(l) == Len(Trim(l)) > 0

\* rawText.split('\n').filter(line => line.trim().length > 0)
NonBlankLines(text) == SelectSeq(Split(text), NotBlank)

descriptionKeywords ==
    {<<"d", "e", "s", "c", "r", "i", "p", "t", "i", "o", "n">>,
     <<"o", "v", "e", "r", "v", "i", "e", "w">>,
     <<"a", "b", "o", "u", "t">>,
     <<"r", "o", "l", "e">>,
     <<"p", "o", "s", "i", "t", "i", "o", "n">>,
     <<"r", "e", "s", "p", "o", "n", "s", "i", "b", "i", "l", "i", "t", "i", "e", "s">>}
requirementsKeywords ==
    {<<"r", "e", "q", "u", "i", "r", "e", "m", "e", "n", "t">>,
     <<"q", "u", "a", "l", "i", "f", "i", "c", "a", "t", "i", "o", "n">>,
     <<"s", "k", "i", "l", "l">>,
     <<"e", "x", "p", "e", "r", "i", "e", "n", "c", "e">>,
     <<"e", "d", "u", "c", "a", "t", "i", "o", "n">>,
     <<"m", "u", "s", "t", " ", "h", "a", "v", "e">>,
     <<"s", "h", "o", "u", "l", "d", " ", "h", "a", "v", "e">>}
contextKeywords ==
    {<<"t", "e", "c", "h", " ", "s", "t", "a", "c", "k">>,
     <<"t", "e", "c", "h", "n", "o", "l", "o", "g", "y">>,
     <<"t", "o", "o", "l", "s">>,
     <<"l", "o", "c", "a", "t", "i", "o", "n">>,
     <<"s", "a", "l", "a", "r", "y">>,
     <<"b", "e", "n", "e", "f", "i", "t">>,
     <<"c", "u", "l", "t", "u", "r", "e">>,
     <<"t", "e", "a", "m">>,
     <<"r", "e", "m", "o", "t", "e">>,
     <<"h", "y", "b", "r", "i", "d">>}

\* /^(requirements?|qualifications?|skills?|experience|education)/ : a line
\* matches exactly when it starts with one of the stems, the optional
\* plural being free to match nothing
requirementsStems ==
    {<<"r", "e", "q", "u", "i", "r", "e", "m", "e", "n", "t">>,
     <<"q", "u", "a", "l", "i", "f", "i", "c", "a", "t", "i", "o", "n">>,
     <<"s", "k", "i", "l", "l">>,
     <<"e", "x", "p", "e", "r", "i", "e", "n", "c", "e">>,
     <<"e", "d", "u", "c", "a", "t", "i", "o", "n">>}
\* /^(location|salary|benefits?|tech stack|technologies?|tools?|culture|team)/
contextStems ==
    {<<"l", "o", "c", "a", "t", "i", "o", "n">>,
     <<"s", "a", "l", "a", "r", "y">>,
     <<"b", "e", "n", "e", "f", "i", "t">>,
     <<"t", "e", "c", "h", " ", "s", "t", "a", "c", "k">>,
     <<"t", "e", "c", "h", "n", "o", "l", "o", "g", "i", "e">>,
     <<"t", "o", "o", "l">>,
     <<"c", "u", "l", "t", "u", "r", "e">>,
     <<"t", "e", "a", "m">>}

SomeIncluded(line, keywords) == \E kw \in keywords : Includes(line, kw)
MatchesStart(line, stems) == \E st \in stems : StartsAt(line, 1, st)

\* a slip: the context test is tried before the requirements test
SectionAfter_contextFirst(line, current) ==
    IF Len(line) < HeadingLimit
       /\ (SomeIncluded(line, contextKeywords)
           \/ MatchesStart(line, contextStems))
    THEN "additionalContext"
    ELSE IF Len(line) < HeadingLimit
            /\ (SomeIncluded(line, requirementsKeywords)
                \/ MatchesStart(line, requirementsStems))
    THEN "requirements"
    ELSE IF Len(line) < HeadingLimit /\ SomeIncluded(line, descriptionKeywords)
    THEN "description"
    ELSE current

\* the if / else-if chain on the lower-cased, trimmed line
SectionAfter(line, current) ==
    IF Len(line) < HeadingLimit
       /\ (SomeIncluded(line, requirementsKeywords)
           \/ MatchesStart(line, requirementsStems))
    THEN "requirements"
    ELSE IF Len(line) < HeadingLimit
            /\ (SomeIncluded(line, contextKeywords)
                \/ MatchesStart(line, contextStems))
    THEN "additionalContext"
    ELSE IF Len(line) < HeadingLimit /\ SomeIncluded(line, descriptionKeywords)
    THEN "description"
    ELSE current

PushTarget_beforeTransition(before, after) ==
    before

\* sections[currentSection].push(lines[i]) runs after the if / else-if chain
PushTarget(before, after) ==
    after

\* /(?:tech stack|technologies?|tools?)[\s:]+([^\n]+)/i
\* index of the last character of the keyword alternative matched at p, 0
\* when none matches; the optional plural is taken when present (without
\* it the plural letter would have to start the [\s:]+ run)
TechKeywordEnd(low, p) ==
    IF StartsAt(low, p, <<"t", "e", "c", "h", " ", "s", "t", "a", "c", "k">>)
    THEN p + 9
    ELSE IF StartsAt(low, p, <<"t", "e", "c", "h", "n", "o", "l", "o", "g", "i", "e", "s">>)
    THEN p + 11
    ELSE IF StartsAt(low, p, <<"t", "e", "c", "h", "n", "o", "l", "o", "g", "i", "e">>)
    THEN p + 10
    ELSE IF StartsAt(low, p, <<"t", "o", "o", "l", "s">>)
    THEN p + 4
    ELSE IF StartsAt(low, p, <<"t", "o", "o", "l">>)
    THEN p + 3
    ELSE 0

IsSeparator(c) == IsSpace(c) \/ c = ":"

\* length of the run of [\s:] characters that follows index e
RECURSIVE SeparatorRun(_, _)
SeparatorRun(text, e) ==
    IF e + 1 <= Len(text) /\ IsSeparator(text[e + 1])
    THEN 1 + SeparatorRun(text, e + 1)
    ELSE 0

\* where the capture group starts when the keyword ends at e: [\s:]+ is
\* greedy and gives characters back until one non-newline character is left
\* for ([^\n]+); 0 when the match fails
CaptureStart(text, e) ==
    LET k == SeparatorRun(text, e)
        ok == {j \in 1..k : e + j + 1 <= Len(text) /\ text[e + j + 1] # "\n"}
    IN  IF ok = {} THEN 0 ELSE e + Max(ok) + 1

\* ([^\n]+) from index c
RestOfLine(text, c) ==
    LET stop == Min({k \in c..Len(text) : text[k] = "\n"} \cup {Len(text) + 1})
    IN  SubSeq(text, c, stop - 1)

\* rawText.match(...): <<>> for null, else <<techStackMatch[1]>>
TechStackMatch(text) ==
    LET low == ToLowerCase(text)
        hits == {p \in 1..Len(text) :
                    /\ TechKeywordEnd(low, p) > 0
                    /\ CaptureStart(text, TechKeywordEnd(low, p)) > 0}
    IN  IF hits = {} THEN <<>>
        ELSE <<RestOfLine(text, CaptureStart(text, TechKeywordEnd(low, Min(hits))))>>

TechStackLabel == <<"T", "e", "c", "h", " ", "S", "t", "a", "c", "k", ":", " ">>

\* lines 194-203: the additionalContext buffer and the tech stack mention
ContextParts(text, buffers) ==
    (IF Len(buffers.additionalContext) > 0
     THEN <<Join(buffers.additionalContext, <<"\n">>)>> ELSE <<>>)
    \o (IF TechStackMatch(text) # <<>>
        THEN <<TechStackLabel \o TechStackMatch(text)[1]>> ELSE <<>>)

SectionNames == {"description", "requirements", "additionalContext"}
EmptySections == [s \in SectionNames |-> <<>>]
ResultFields ==
    {"jobTitle", "companyName", "description", "requirements", "additionalContext"}

\* the listing of the scenario in the specification
ExampleText ==
    <<"R", "e", "q", "u", "i", "r", "e", "m", "e", "n", "t", "s", ":", "\n">>
    \o <<"-", " ", "5", " ", "y", "e", "a", "r", "s", " ", "P", "y", "t", "h", "o", "n", "\n">>
    \o <<"-", " ", "S", "Q", "L", "\n", "\n">>
    \o <<"B", "e", "n", "e", "f", "i", "t", "s", ":", "\n">>
    \o <<"R", "e", "m", "o", "t", "e", " ", "w", "o", "r", "k">>

\* lines a generated listing is made of
JobLines ==
    {<<"R", "e", "q", "u", "i", "r", "e", "m", "e", "n", "t", "s", ":">>,
     <<"-", " ", "5", " ", "y", "e", "a", "r", "s", " ", "P", "y", "t", "h", "o", "n">>,
     <<"-", " ", "S", "Q", "L">>,
     <<"B", "e", "n", "e", "f", "i", "t", "s", ":">>,
     <<"R", "e", "m", "o", "t", "e", " ", "w", "o", "r", "k">>,
     <<"A", "b", "o", "u", "t", " ", "t", "h", "e", " ", "r", "o", "l", "e">>,
     <<"T", "o", "o", "l", "s", ":", " ", "g", "i", "t">>,
     <<"T", "e", "a", "m", " ", "s", "k", "i", "l", "l", "s">>,
     <<>>,
     <<"s", "k", "i", "l", "l", "s", " ">> \o [k \in 1..(HeadingLimit - 8) |-> "x"],
     <<"s", "k", "i", "l", "l", "s", " ">> \o [k \in 1..(HeadingLimit - 7) |-> "x"]}

\* the listings handed to the parser: the vocabulary lines joined by "\n"
JobTexts ==
    {ExampleText}
    \cup {Join(ls, <<"\n">>) : ls \in UNION {[1..n -> JobLines] : n \in 0..MaxJobLines}}

\* scraped data of the content script (title and company are strings,
\* possibly empty) and objects that lack the two properties
ScrapedObjects ==
    {[title |-> Undefined, company |-> Undefined],
     [title |-> Str(<<>>), company |-> Str(<<>>)],
     [title |-> Str(<<"D", "e", "v">>), company |-> Str(<<"A", "c", "m", "e">>)]}

JobLocalsInitial ==
    /\ lines = <<>>
    /\ lineIdx = 0
    /\ currentSection = "description"
    /\ sections = EmptySections
    /\ jobResult = [f \in ResultFields |-> Undefined]

JobIdle ==
    /\ rawText = <<>>
    /\ scrapedData = [title |-> Undefined, company |-> Undefined]
    /\ JobLocalsInitial
    /\ jPc = "idle"

JobStart ==
    /\ rawText \in JobTexts
    /\ scrapedData \in ScrapedObjects
    /\ JobLocalsInitial
    /\ jPc = "call"

JobUnchangedOthers ==
    UNCHANGED <<normVars, diffVars, mapVars, llmVars, appVars, kwVars, rebuildVars, tabVars, parseVars, scrapeVars>>

\* lines 150-167: the result object, the non-blank lines, the start section
BeginParse ==
    /\ jPc = "call"
    /\ jobResult' = [jobTitle |-> LogicalOr(scrapedData.title, Str(<<>>)),
                     companyName |-> LogicalOr(scrapedData.company, Str(<<>>)),
                     description |-> Str(<<>>),
                     requirements |-> Str(<<>>),
                     additionalContext |-> Str(<<>>)]
    /\ lines' = NonBlankLines(rawText)
    /\ currentSection' = "description"
    /\ sections' = EmptySections
    /\ lineIdx' = 0
    /\ jPc' = "loop"
    /\ UNCHANGED <<rawText, scrapedData>>
    /\ JobUnchangedOthers

\* lines 169-188: one iteration of the loop over the lines
ClassifyLine ==
    /\ jPc = "loop"
    /\ lineIdx < Len(lines)
    /\ LET line == Trim(ToLowerCase(lines[lineIdx + 1]))
           after == SectionAfter(line, currentSection)
       IN  /\ currentSection' = after
           /\ sections' = [sections EXCEPT ![PushTarget(currentSection, after)] =
                              Append(@, lines[lineIdx + 1])]
    /\ lineIdx' = lineIdx + 1
    /\ UNCHANGED <<rawText, scrapedData, lines, jobResult, jPc>>
    /\ JobUnchangedOthers

\* lines 190-207: the three text fields, then return result
FinishParse ==
    /\ jPc = "loop"
    /\ lineIdx >= Len(lines)
    /\ jobResult' =
          [jobResult EXCEPT
             !.description =
                LogicalOr(Str(Trim(Join(sections.description, <<"\n">>))),
                          Str(SubSeq(rawText, 1, Min({DescriptionLimit, Len(rawText)})))),
             !.requirements = Str(Trim(Join(sections.requirements, <<"\n">>))),
             !.additionalContext =
                Str(Trim(Join(ContextParts(rawText, sections), <<"\n", "\n">>)))]
    /\ jPc' = "returned"
    /\ UNCHANGED <<rawText, scrapedData, lines, lineIdx, currentSection, sections>>
    /\ JobUnchangedOthers

JobNext ==
    \/ BeginParse
    \/ ClassifyLine
    \/ FinishParse

\* the loop of lines 169-188 after k iterations, for the callers that run
\* fallbackParseJob in one go
RECURSIVE SectionsLoop(_, _)
SectionsLoop(ls, k) ==
    IF k = 0
    THEN [current |-> "description", buffers |-> EmptySections]
    ELSE LET before == SectionsLoop(ls, k - 1)
             after == SectionAfter(Trim(ToLowerCase(ls[k])), before.current)
         IN  [current |-> after,
              buffers |-> [before.buffers
                             EXCEPT ![PushTarget(before.current, after)] =
                                Append(@, ls[k])]]

\* fallbackParseJob(rawText, url, scrapedData) as a function of its arguments
fallbackParseJob(text, scraped) ==
    LET ls == NonBlankLines(text)
        buffers == SectionsLoop(ls, Len(ls)).buffers
    IN  [jobTitle |-> LogicalOr(scraped.title, Str(<<>>)),
         companyName |-> LogicalOr(scraped.company, Str(<<>>)),
         description |->
            LogicalOr(Str(Trim(Join(buffers.description, <<"\n">>))),
                      Str(SubSeq(text, 1, Min({DescriptionLimit, Len(text)})))),
         requirements |-> Str(Trim(Join(buffers.requirements, <<"\n">>))),
         additionalContext |->
            Str(Trim(Join(ContextParts(text, buffers), <<"\n", "\n">>)))]

-----------------------------------------------------------------------------
(* parseJobWithLLM, src/scraper/jobParser.js:52-129.  An LLM response is a
   sequence of lexical tokens: JSON punctuation and literals, the markdown
   fence, the word json, a blank and a word of prose. *)

MaxBodyTokens == 3  \* most tokens between the wrappers of a generated response

TokFence == "fence"    \* the three backquotes of a markdown code fence
TokJson == "json"
TokBlank == " "
TokProse == "Sure"
TokString == "\"Dev\""
TokMember == "\"jobTitle\":\"Dev\""
BodyTokens == {"{", "}", "[", "]", "null", "1", TokString, TokMember}

Dev == <<"D", "e", "v">>

\* String.prototype.trim on a token sequence
RECURSIVE TrimTokens(_)
TrimTokens(t) ==
    IF t # <<>> /\ Head(t) = TokBlank THEN TrimTokens(Tail(t))
    ELSE IF t # <<>> /\ t[Len(t)] = TokBlank
    THEN TrimTokens(SubSeq(t, 1, Len(t) - 1))
    ELSE t

\* \s* from index i: the index of the first token that is not a blank
RECURSIVE SkipBlanks(_, _)
SkipBlanks(t, i) ==
    IF i <= Len(t) /\ t[i] = TokBlank THEN SkipBlanks(t, i + 1) ELSE i

\* JSON.parse: the outcome of reading one value at index i.  Of a value
\* only its JavaScript type and its jobTitle property matter to the caller.
JsonFail == [ok |-> FALSE, kind |-> "none", jobTitle |-> Undefined, next |-> 0]
JsonVal(kind, jobTitle, next) ==
    [ok |-> TRUE, kind |-> kind, jobTitle |-> jobTitle, next |-> next]

\* adjacent digit tokens read as one number
RECURSIVE DigitsEnd(_, _)
DigitsEnd(t, i) ==
    IF i <= Len(t) /\ t[i] = "1" THEN DigitsEnd(t, i + 1) ELSE i

Closes(t, i, bracket) == i <= Len(t) /\ t[i] = bracket

RECURSIVE JsonValue(_, _)
JsonValue(t, i) ==
    IF i > Len(t) THEN JsonFail
    ELSE IF t[i] = "null" THEN JsonVal("null", Undefined, i + 1)
    ELSE IF t[i] = "1" THEN JsonVal("number", Undefined, DigitsEnd(t, i))
    ELSE IF t[i] = TokString THEN JsonVal("string", Undefined, i + 1)
    ELSE IF t[i] = "["
    THEN LET j == SkipBlanks(t, i + 1)
             v == JsonValue(t, j)
         IN  IF Closes(t, j, "]") THEN JsonVal("array", Undefined, j + 1)
             ELSE IF v.ok /\ Closes(t, SkipBlanks(t, v.next), "]")
             THEN JsonVal("array", Undefined, SkipBlanks(t, v.next) + 1)
             ELSE JsonFail
    ELSE IF t[i] = "{"
    THEN LET j == SkipBlanks(t, i + 1)
         IN  IF Closes(t, j, "}") THEN JsonVal("object", Undefined, j + 1)
             ELSE IF Closes(t, j, TokMember) /\ Closes(t, SkipBlanks(t, j + 1), "}")
             THEN JsonVal("object", Str(Dev), SkipBlanks(t, j + 1) + 1)
             ELSE JsonFail
    ELSE JsonFail

\* JSON.parse(text): one value with blanks around it and nothing else
JsonParse(t) ==
    LET v == JsonValue(t, SkipBlanks(t, 1))
    IN  IF v.ok /\ SkipBlanks(t, v.next) > Len(t) THEN v ELSE JsonFail

\* safeJsonParse: null when JSON.parse throws
safeJsonParse(t) ==
    IF JsonParse(t).ok THEN JsonParse(t)
    ELSE [JsonFail EXCEPT !.kind = "null"]

\* /```(?:json)?\s*(\{[\s\S]*\})\s*```/ tried with its fence at index f: the
\* capture group as <<from, to>>, <<>> when there is no match at f
FencedObjectAt(t, f) ==
    LET afterWord == IF Closes(t, f + 1, TokJson) THEN f + 2 ELSE f + 1
        open == SkipBlanks(t, afterWord)
        ends == {k \in (open + 1)..Len(t) :
                    t[k] = "}" /\ Closes(t, SkipBlanks(t, k + 1), TokFence)}
    IN  IF t[f] = TokFence /\ Closes(t, open, "{") /\ ends # {}
        THEN <<open, Max(ends)>>
        ELSE <<>>

\* lines 99-111: the text handed to safeJsonParse
JsonTextOf(responseTokens) ==
    LET t == TrimTokens(responseTokens)
        fences == {f \in 1..Len(t) : FencedObjectAt(t, f) # <<>>}
        opens == {k \in 1..Len(t) : t[k] = "{"}
        closes == {k \in 1..Len(t) : t[k] = "}"}
    IN  IF fences # {}
        THEN SubSeq(t, FencedObjectAt(t, Min(fences))[1],
                       FencedObjectAt(t, Min(fences))[2])
        ELSE IF opens # {} /\ \E k \in closes : k > Min(opens)
        THEN SubSeq(t, Min(opens), Max(closes))
        ELSE t

\* parsed && typeof parsed === 'object'
IsObject(parsed) ==
    parsed.kind \in {"object", "array"}

\* lines 115-121: the object returned for a parsed response
ParsedJobOf(parsed) ==
    [jobTitle |-> LogicalOr(parsed.jobTitle, Str(<<>>)),
     companyName |-> Str(<<>>),
     description |-> Str(<<>>),
     requirements |-> Str(<<>>),
     additionalContext |-> Str(<<>>)]

NoJob == [f \in {"jobTitle", "companyName", "description", "requirements",
                 "additionalContext"} |-> Undefined]

\* the generated responses: every body of at most MaxBodyTokens tokens, bare,
\* after a word of prose, between blanks, and inside a markdown fence
Bodies == UNION {[1..n -> BodyTokens] : n \in 0..MaxBodyTokens}
Wrappings(body) ==
    {body,
     <<TokProse, TokBlank>> \o body,
     <<TokBlank>> \o body \o <<TokBlank>>,
     <<TokFence>> \o body \o <<TokFence>>,
     <<TokFence, TokJson, TokBlank>> \o body \o <<TokBlank, TokFence>>}
LlmResponses ==
    UNION {Wrappings(body) : body \in Bodies}
    \cup {<<"[", "{", TokMember, "}", "]">>}

LlmModes == {"openai", "generic"}

LlmIdle ==
    /\ llmMode = "openai"
    /\ llmCaller = "none"
    /\ responseText = <<>>
    /\ parsedJob = NoJob
    /\ lPc = "idle"

LlmStart ==
    /\ llmMode \in LlmModes
    /\ llmCaller = "none"
    /\ responseText = <<>>
    /\ parsedJob = NoJob
    /\ lPc = "call"

LlmUnchangedOthers ==
    UNCHANGED <<normVars, diffVars, mapVars, jobVars, appVars, kwVars, rebuildVars, tabVars, parseVars, scrapeVars>>

\* lines 84-96: the request goes to the caller that settings.llmMode selects
LlmRequest ==
    /\ lPc = "call"
    /\ llmCaller' = IF llmMode = "generic" THEN "callGeneric" ELSE "callOpenAi"
    /\ lPc' = "awaiting"
    /\ UNCHANGED <<llmMode, responseText, parsedJob>>
    /\ LlmUnchangedOthers

\* the awaited call throws; the catch block rethrows (lines 125-128)
LlmCallFails ==
    /\ lPc = "awaiting"
    /\ lPc' = "threw"
    /\ UNCHANGED <<llmMode, llmCaller, responseText, parsedJob>>
    /\ LlmUnchangedOthers

\* the awaited call answers; callOpenAi only ever answers with a trimmed,
\* non-empty text (src/app.js:469-473)
LlmAnswers ==
    /\ lPc = "awaiting"
    /\ \E text \in LlmResponses :
          /\ llmCaller = "callOpenAi" => text # <<>> /\ TrimTokens(text) = text
          /\ responseText' = text
    /\ lPc' = "parse"
    /\ UNCHANGED <<llmMode, llmCaller, parsedJob>>
    /\ LlmUnchangedOthers

\* lines 113-122
ReturnParsed ==
    /\ lPc = "parse"
    /\ IsObject(safeJsonParse(JsonTextOf(responseText)))
    /\ parsedJob' = ParsedJobOf(safeJsonParse(JsonTextOf(responseText)))
    /\ lPc' = "returned"
    /\ UNCHANGED <<llmMode, llmCaller, responseText>>
    /\ LlmUnchangedOthers

\* lines 124-128
ThrowParseError ==
    /\ lPc = "parse"
    /\ ~IsObject(safeJsonParse(JsonTextOf(responseText)))
    /\ lPc' = "threw"
    /\ UNCHANGED <<llmMode, llmCaller, responseText, parsedJob>>
    /\ LlmUnchangedOthers

LlmNext ==
    \/ LlmRequest
    \/ LlmCallFails
    \/ LlmAnswers
    \/ ReturnParsed
    \/ ThrowParseError

-----------------------------------------------------------------------------
(* The side panel, src/app.js:87-271 and 698-766: scrapeCurrentTab,
   deepScrapeExa and generateTailoredResume as asynchronous operations over
   the form fields, the session state and the stored settings.  Every click
   starts an operation; an operation runs to its next await in one step. *)

MaxClicks == 2      \* clicks on the three buttons in one session

KeyText == <<"k">>
UrlText == <<"h", "t", "t", "p", "s", ":", "/", "/", "j">>
ListingText == <<"S", "k", "i", "l", "l", "s", ":", "\n", "S", "Q", "L">>
ResumeText == <<"s", "q", "l", " ", "d", "e", "v">>

\* chrome.storage.sync.get(defaults): the stored settings.  No key at all,
\* the Exa key alone, an LLM key without and with an endpoint, and the three
\* values of llmMode the handlers tell apart
Settings(exa, ep, key, mode) ==
    [exaApiKey |-> exa, llmEndpoint |-> ep, llmApiKey |-> key, llmMode |-> mode]

AppSettings ==
    {Settings(<<>>, <<>>, <<>>, "openai"),
     Settings(KeyText, <<>>, <<>>, "openai"),
     Settings(<<>>, <<>>, KeyText, "openai"),
     Settings(<<>>, KeyText, KeyText, "openai"),
     Settings(KeyText, KeyText, KeyText, "generic"),
     Settings(KeyText, KeyText, KeyText, "custom")}

NoSettings ==
    [exaApiKey |-> <<>>, llmEndpoint |-> <<>>, llmApiKey |-> <<>>, llmMode |-> "openai"]

NoScraped == [title |-> Undefined, company |-> Undefined]

PageTitle == <<"J", "o", "b">>

\* the answers of the background page to { type: 'SCRAPE_URL', url }:
\* nothing, a failure with or without a message, success without data, and
\* success with what extractJobData found on the page
ScrapeAnswers ==
    {[present |-> FALSE, ok |-> FALSE, error |-> "", hasData |-> FALSE,
      data |-> NoScraped, description |-> <<>>, metaDescription |-> <<>>],
     [present |-> TRUE, ok |-> FALSE, error |-> "Please provide a valid http(s) URL.",
      hasData |-> FALSE, data |-> NoScraped, description |-> <<>>,
      metaDescription |-> <<>>],
     [present |-> TRUE, ok |-> TRUE, error |-> "", hasData |-> FALSE,
      data |-> NoScraped, description |-> <<>>, metaDescription |-> <<>>],
     [present |-> TRUE, ok |-> TRUE, error |-> "", hasData |-> TRUE,
      data |-> [title |-> Str(<<>>), company |-> Str(<<>>)],
      description |-> <<>>, metaDescription |-> <<>>],
     [present |-> TRUE, ok |-> TRUE, error |-> "", hasData |-> TRUE,
      data |-> [title |-> Str(PageTitle), company |-> Str(<<>>)],
      description |-> ListingText, metaDescription |-> <<>>]}

\* what the LLM may answer inside a scrape: an object with a job title, an
\* empty object in a markdown fence, an array, prose without JSON
FlowResponses ==
    {<<"{", TokMember, "}">>,
     <<TokFence, TokJson, TokBlank, "{", "}", TokBlank, TokFence>>,
     <<"[", "]">>,
     <<TokProse>>}

\* the call to the endpoint throws (network error, non-success status, empty
\* content): there is no response text
CallThrows == <<"throws">>
LlmOutcomes == {CallThrows} \cup FlowResponses

\* parseJobWithLLM rejects: the call threw, or line 124 is reached
LlmThrows(outcome) ==
    \/ outcome = CallThrows
    \/ ~IsObject(safeJsonParse(JsonTextOf(outcome)))

\* an operation: which handler, where it is suspended, its locals, and a
\* record of the strategies it has run
NewOp(kind) ==
    [kind |-> kind, pc |-> "start", url |-> <<>>, rawText |-> <<>>,
     scrapedData |-> NoScraped, settings |-> NoSettings,
     llmAttempts |-> 0, llmOutcome |-> "none", fallbackRuns |-> 0,
     used |-> "none", resumeText |-> <<>>, jobDescription |-> <<>>,
     jobAdditional |-> <<>>]

\* the handler has returned: its locals are gone, the record of what it ran
\* stays
Returned(op) ==
    [NewOp(op.kind) EXCEPT !.pc = "done", !.settings = op.settings,
                           !.llmAttempts = op.llmAttempts,
                           !.llmOutcome = op.llmOutcome,
                           !.fallbackRuns = op.fallbackRuns,
                           !.used = op.used]

EmptyElements ==
    [jobUrl |-> <<>>, jobTitle |-> <<>>, companyName |-> <<>>,
     jobDescription |-> <<>>, additionalContext |-> <<>>, resumeText |-> <<>>,
     status |-> ""]

JobFields == {"jobTitle", "companyName", "jobDescription", "additionalContext"}

setStatus(el, message) == [el EXCEPT !.status = message]

\* [parsedData.description, parsedData.requirements].filter(Boolean)
DescriptionParts(parsedData) ==
    SelectSeq(<<parsedData.description, parsedData.requirements>>, Truthy)

PartsText(parts) ==
    Join([k \in 1..Len(parts) |-> parts[k].chars], <<"\n", "\n">>)

\* scrapeCurrentTab, lines 145-176
PopulateScrape(el, parsedData, scraped, raw) ==
    [el EXCEPT
       !.jobTitle = IF Truthy(parsedData.jobTitle) THEN parsedData.jobTitle.chars
                    ELSE IF Truthy(scraped.title) THEN scraped.title.chars
                    ELSE @,
       !.companyName = IF Truthy(parsedData.companyName)
                       THEN parsedData.companyName.chars
                       ELSE IF Truthy(scraped.company) THEN scraped.company.chars
                       ELSE @,
       !.jobDescription = IF Len(DescriptionParts(parsedData)) > 0
                          THEN PartsText(DescriptionParts(parsedData))
                          ELSE IF raw # <<>> THEN raw
                          ELSE @,
       !.additionalContext = IF Truthy(parsedData.additionalContext)
                             THEN parsedData.additionalContext.chars
                             ELSE @,
       !.status = "Job details extracted and populated."]

\* deepScrapeExa, lines 229-256
PopulateDeep(el, parsedData, raw) ==
    [el EXCEPT
       !.jobTitle = IF Truthy(parsedData.jobTitle) /\ @ = <<>>
                    THEN parsedData.jobTitle.chars ELSE @,
       !.companyName = IF Truthy(parsedData.companyName) /\ @ = <<>>
                       THEN parsedData.companyName.chars ELSE @,
       !.jobDescription = IF Len(DescriptionParts(parsedData)) > 0
                          THEN PartsText(DescriptionParts(parsedData))
                          ELSE raw,
       !.additionalContext = IF Truthy(parsedData.additionalContext)
                             THEN parsedData.additionalContext.chars
                             ELSE @,
       !.status = "Exa content parsed and populated."]

\* settings.llmEndpoint && settings.llmApiKey
LlmConfigured_keyOnly(s) ==
    s.llmApiKey # <<>>

LlmConfigured(s) ==
    s.llmEndpoint # <<>> /\ s.llmApiKey # <<>>

\* if (!settings.exaApiKey), line 187
ExaKeyMissing_never(s) ==
    FALSE

ExaKeyMissing(s) ==
    s.exaApiKey = <<>>

\* the scrapedData object deepScrapeExa builds for the fallback, lines 220-224
DeepScraped(el) == [title |-> Str(el.jobTitle), company |-> Str(el.companyName)]

Populate(op, el, parsedData) ==
    IF op.kind = "scrape"
    THEN PopulateScrape(el, parsedData, op.scrapedData, op.rawText)
    ELSE PopulateDeep(el, parsedData, op.rawText)

\* fallbackParseJobWrapper, lines 269-271, as the table of what
\* fallbackParseJob returns for the arguments the two handlers pass: the
\* scraped text, and a title that is absent, empty, the page's or the LLM's
WrapperArguments ==
    {<<ListingText, scraped>> :
        scraped \in {NoScraped} \cup
                    {[title |-> Str(title), company |-> Str(<<>>)] :
                        title \in {<<>>, PageTitle, Dev}}}

fallbackParseJobWrapper ==
    [arguments \in WrapperArguments |->
        fallbackParseJob(arguments[1], arguments[2])]

\* if (!parsedData) { ... fallbackParseJobWrapper(...) } and the population
\* of the fields: the rest of the handler once no LLM result is at hand
FallbackAndPopulate(op, el) ==
    LET scraped == IF op.kind = "scrape" THEN op.scrapedData ELSE DeepScraped(el)
    IN  Populate(op, el, fallbackParseJobWrapper[<<op.rawText, scraped>>])

\* the form when the panel is used: with or without a URL, an extracted
\* resume, a pasted description
Form(url, resume, description) ==
    [EmptyElements EXCEPT !.jobUrl = url, !.resumeText = resume,
                          !.jobDescription = description]

AppForms ==
    {Form(UrlText, ResumeText, ListingText),
     Form(<<" ">>, ResumeText, <<>>),
     Form(UrlText, <<>>, ListingText)}

AppIdle ==
    /\ settings = NoSettings
    /\ elements = EmptyElements
    /\ ops = <<>>
    /\ netCalls = <<>>

AppStart ==
    /\ settings \in AppSettings
    /\ elements \in AppForms
    /\ ops = <<>>
    /\ netCalls = <<>>

AppUnchangedOthers ==
    UNCHANGED <<normVars, dOriginal, dCandidate, dDiffs, lastOp, mapVars,
                jobVars, llmVars, kwVars, rebuildVars, tabVars, parseVars, scrapeVars>>

\* the handlers that never touch `state` or elements.finalText
SessionUntouched == UNCHANGED <<state, finalText>>

Suspended(i, pc) == i \in DOMAIN ops /\ ops[i].pc = pc

\* click on scrapeJob: scrapeCurrentTab up to its first await, lines 88-98
ClickScrape ==
    /\ Len(ops) < MaxClicks
    /\ LET url == Trim(elements.jobUrl)
       IN  IF url = <<>>
           THEN /\ elements' = setStatus(elements, "Add a job URL first.")
                /\ ops' = Append(ops, [NewOp("scrape") EXCEPT !.pc = "done"])
           ELSE /\ elements' = setStatus(elements, "Scraping job URL...")
                /\ ops' = Append(ops, [NewOp("scrape") EXCEPT
                                         !.pc = "awaitScrape", !.url = url])
    /\ UNCHANGED <<settings, netCalls>>
    /\ SessionUntouched
    /\ AppUnchangedOthers

\* chrome.runtime.sendMessage rejects: the catch block of lines 177-180
ScrapeMessageFails(i) ==
    /\ Suspended(i, "awaitScrape")
    /\ elements' = setStatus(elements, "Scrape failed. Check the URL and try again.")
    /\ ops' = [ops EXCEPT ![i] = Returned(ops[i])]
    /\ UNCHANGED <<settings, netCalls>>
    /\ SessionUntouched
    /\ AppUnchangedOthers

\* the background page answers: lines 99-123, up to await getSettings()
ScrapeAnswered(i) ==
    /\ Suspended(i, "awaitScrape")
    /\ \E answer \in ScrapeAnswers :
          LET raw == Join(SelectSeq(<<answer.description, answer.metaDescription>>,
                                    LAMBDA part : part # <<>>), <<"\n", "\n">>)
          IN  IF ~answer.present \/ ~answer.ok
              THEN /\ elements' = setStatus(elements,
                                     IF answer.present /\ answer.error # ""
                                     THEN answer.error ELSE "Scrape failed.")
                   /\ ops' = [ops EXCEPT ![i] = Returned(ops[i])]
              ELSE IF ~answer.hasData
              THEN /\ elements' = setStatus(elements, "Could not read this page.")
                   /\ ops' = [ops EXCEPT ![i] = Returned(ops[i])]
              ELSE IF raw = <<>>
              THEN /\ elements' = setStatus(elements, "No content found on this page.")
                   /\ ops' = [ops EXCEPT ![i] = Returned(ops[i])]
              ELSE /\ elements' = elements
                   /\ ops' = [ops EXCEPT ![i].pc = "awaitSettings",
                                         ![i].scrapedData = answer.data,
                                         ![i].rawText = raw]
    /\ UNCHANGED <<settings, netCalls>>
    /\ SessionUntouched
    /\ AppUnchangedOthers

\* lines 125-143 and 202-227 once rawText and the settings are at hand: the
\* LLM strategy is started, or the fallback runs and the fields are filled
ChooseStrategy(i, op, el) ==
    IF LlmConfigured(op.settings)
    THEN /\ elements' = setStatus(el, IF op.kind = "scrape"
                                      THEN "Parsing job details with LLM..."
                                      ELSE "Parsing Exa content with LLM...")
         /\ ops' = [ops EXCEPT ![i] = [op EXCEPT !.pc = "awaitLlm",
                                                 !.llmAttempts = @ + 1]]
         /\ netCalls' = Append(netCalls, [op |-> i, to |-> "llm"])
    ELSE /\ elements' = FallbackAndPopulate(op, el)
         /\ ops' = [ops EXCEPT ![i] = Returned([op EXCEPT !.fallbackRuns = @ + 1,
                                                          !.used = "fallback"])]
         /\ netCalls' = netCalls

\* getSettings() resolves in scrapeCurrentTab, line 124
ScrapeSettingsRead(i) ==
    /\ Suspended(i, "awaitSettings")
    /\ ops[i].kind = "scrape"
    /\ ChooseStrategy(i, [ops[i] EXCEPT !.settings = settings], elements)
    /\ UNCHANGED settings
    /\ SessionUntouched
    /\ AppUnchangedOthers

\* parseJobWithLLMWrapper rejects (the call failed, or the response is not a
\* JSON object): lines 135-143 and 210-227
LlmStrategyFails(i) ==
    /\ Suspended(i, "awaitLlm")
    /\ ops[i].kind \in {"scrape", "deep"}
    /\ \E outcome \in LlmOutcomes : LlmThrows(outcome)
    /\ elements' = FallbackAndPopulate(ops[i], elements)
    /\ ops' = [ops EXCEPT ![i] = Returned([ops[i] EXCEPT !.llmOutcome = "failed",
                                                       !.fallbackRuns = @ + 1,
                                                       !.used = "fallback"])]
    /\ UNCHANGED <<settings, netCalls>>
    /\ SessionUntouched
    /\ AppUnchangedOthers

\* parseJobWithLLMWrapper resolves: lines 130-131 / 208-209, then the fields
LlmStrategySucceeds(i) ==
    /\ Suspended(i, "awaitLlm")
    /\ ops[i].kind \in {"scrape", "deep"}
    /\ \E outcome \in LlmOutcomes :
          /\ ~LlmThrows(outcome)
          /\ elements' = Populate(ops[i], elements,
                                  ParsedJobOf(safeJsonParse(JsonTextOf(outcome))))
    /\ ops' = [ops EXCEPT ![i] = Returned([ops[i] EXCEPT !.llmOutcome = "ok",
                                                       !.used = "llm"])]
    /\ UNCHANGED <<settings, netCalls>>
    /\ SessionUntouched
    /\ AppUnchangedOthers

\* click on deepScrape: deepScrapeExa up to await getSettings(), lines 185-186
ClickDeepScrape ==
    /\ Len(ops) < MaxClicks
    /\ elements' = setStatus(elements, "Deep scraping with Exa...")
    /\ ops' = Append(ops, [NewOp("deep") EXCEPT !.pc = "awaitSettings"])
    /\ UNCHANGED <<settings, netCalls>>
    /\ SessionUntouched
    /\ AppUnchangedOthers

\* getSettings() resolves in deepScrapeExa: lines 187-200
DeepSettingsRead(i) ==
    /\ Suspended(i, "awaitSettings")
    /\ ops[i].kind = "deep"
    /\ IF ExaKeyMissing(settings)
       THEN /\ elements' = setStatus(elements, "Add your Exa API key in Settings.")
            /\ ops' = [ops EXCEPT ![i] = Returned([ops[i] EXCEPT !.settings = settings])]
            /\ netCalls' = netCalls
       ELSE IF Trim(elements.jobUrl) = <<>>
       THEN /\ elements' = setStatus(elements, "Add a job URL first.")
            /\ ops' = [ops EXCEPT ![i] = Returned([ops[i] EXCEPT !.settings = settings])]
            /\ netCalls' = netCalls
       ELSE /\ elements' = elements
            /\ ops' = [ops EXCEPT ![i].pc = "awaitExa", ![i].settings = settings,
                                  ![i].url = Trim(elements.jobUrl)]
            /\ netCalls' = Append(netCalls, [op |-> i, to |-> "exa"])
    /\ UNCHANGED settings
    /\ SessionUntouched
    /\ AppUnchangedOthers

\* scrapeWithExa rejects: lines 257-260
ExaFails(i) ==
    /\ Suspended(i, "awaitExa")
    /\ elements' = setStatus(elements, "Exa scrape failed. Check your key and URL.")
    /\ ops' = [ops EXCEPT ![i] = Returned(ops[i])]
    /\ UNCHANGED <<settings, netCalls>>
    /\ SessionUntouched
    /\ AppUnchangedOthers

\* scrapeWithExa resolves with the page text: lines 200-227
ExaAnswered(i) ==
    /\ Suspended(i, "awaitExa")
    /\ ChooseStrategy(i, [ops[i] EXCEPT !.rawText = ListingText], elements)
    /\ UNCHANGED settings
    /\ SessionUntouched
    /\ AppUnchangedOthers

-----------------------------------------------------------------------------
(* extractKeywords, src/app.js:502-523 *)

MaxKwWords == 3     \* words in the text handed to extractKeywords
DefaultLimit == 14  \* limit = 14

stopwords ==
    {<<"t", "h", "e">>,
     <<"a", "n", "d">>,
     <<"w", "i", "t", "h">>,
     <<"f", "o", "r">>,
     <<"t", "h", "a", "t">>,
     <<"t", "h", "i", "s">>,
     <<"f", "r", "o", "m">>,
     <<"a", "r", "e">>,
     <<"y", "o", "u">>,
     <<"y", "o", "u", "r">>,
     <<"w", "i", "l", "l">>,
     <<"o", "u", "r">>,
     <<"i", "n", "t", "o">>,
     <<"a", "b", "o", "u", "t">>,
     <<"a", "b", "l", "e">>,
     <<"h", "a", "v", "e">>,
     <<"h", "a", "s">>,
     <<"h", "a", "d">>,
     <<"j", "o", "b">>,
     <<"r", "o", "l", "e">>,
     <<"t", "e", "a", "m">>,
     <<"w", "o", "r", "k">>,
     <<"c", "a", "n">>,
     <<"u", "s", "e">>,
     <<"u", "s", "i", "n", "g">>,
     <<"w", "h", "o">>,
     <<"w", "h", "a", "t">>,
     <<"w", "h", "e", "n">>,
     <<"w", "h", "e", "r", "e">>,
     <<"w", "h", "y">>,
     <<"h", "o", "w">>,
     <<"p", "e", "r">>,
     <<"v", "i", "a">>,
     <<"a", "l", "l">>,
     <<"a", "n", "y">>,
     <<"n", "o", "t">>,
     <<"b", "u", "t">>,
     <<"o", "u", "t">>,
     <<"i", "n">>,
     <<"o", "n">>,
     <<"o", "f">>,
     <<"t", "o">>,
     <<"a">>,
     <<"a", "n">>,
     <<"o", "r">>,
     <<"a", "s">>,
     <<"b", "e">>,
     <<"b", "y">>,
     <<"i", "s">>,
     <<"a", "t">>}

\* the words the texts are made of: a word in two casings, a stop-word, a
\* word with punctuation of the character class, a word that is too short,
\* a word that names a property every object inherits, a word behind a digit
KwVocabulary ==
    {<<"s", "q", "l">>,
     <<"S", "Q", "L">>,
     <<"t", "h", "e">>,
     <<"c", "+", "+">>,
     <<"g", "o">>,
     <<"c", "o", "n", "s", "t", "r", "u", "c", "t", "o", "r">>,
     <<"3", "d", "-", "a", "p", "i">>}

KwTexts ==
    {Join(ws, <<" ">>) : ws \in UNION {[1..n -> KwVocabulary] : n \in 0..MaxKwWords}}

KwLimits == {0, 1, 2, DefaultLimit}

DigitChars == {"0", "1", "2", "3", "4", "5", "6", "7", "8", "9"}
IsLowerLetter(c) == \E k \in 1..26 : LowerLetters[k] = c
\* [a-z0-9+.#-]
IsWordChar(c) == IsLowerLetter(c) \/ c \in DigitChars \/ c \in {"+", ".", "#", "-"}

\* last index of the maximal run of [a-z0-9+.#-] that starts at i (i-1 if none)
RECURSIVE WordRunEnd(_, _)
WordRunEnd(s, i) ==
    IF i <= Len(s) /\ IsWordChar(s[i]) THEN WordRunEnd(s, i + 1) ELSE i - 1

\* s.match(/[a-z][a-z0-9+.#-]{2,}/g) || []: the leftmost greedy matches from
\* index i on
RECURSIVE WordMatches(_, _)
WordMatches(s, i) ==
    IF i > Len(s) THEN <<>>
    ELSE IF IsLowerLetter(s[i]) /\ WordRunEnd(s, i + 1) >= i + 2
    THEN <<SubSeq(s, i, WordRunEnd(s, i + 1))>>
             \o WordMatches(s, WordRunEnd(s, i + 1) + 1)
    ELSE WordMatches(s, i + 1)

\* (text || '').toLowerCase().match(...) without the stop-words, in order
CountedWords(text) ==
    SelectSeq(WordMatches(ToLowerCase(text), 1), LAMBDA w : w \notin stopwords)

\* the lower-case property names `counts = {}` inherits from Object.prototype
\* that the pattern can match: counts[word] is then a function, not undefined
InheritedProperties == {<<"c", "o", "n", "s", "t", "r", "u", "c", "t", "o", "r">>}

\* `counts` after words[1..k]: the own properties in insertion order.  A
\* count is a number, or, when the first read found an inherited function,
\* the string the `+ 1` concatenation made (numeric = FALSE)
RECURSIVE CountsAfter(_, _)
CountsAfter(words, k) ==
    IF k = 0 THEN <<>>
    ELSE LET counts == CountsAfter(words, k - 1)
             word == words[k]
         IN  IF \E j \in 1..Len(counts) : counts[j].word = word
             THEN LET j == CHOOSE j \in 1..Len(counts) : counts[j].word = word
                  IN  [counts EXCEPT ![j].n = @ + 1]
             ELSE Append(counts, [word |-> word, n |-> 1,
                                  numeric |-> word \notin InheritedProperties])

\* (a, b) => b[1] - a[1]; sort treats a NaN result as 0
Compare(a, b) ==
    IF a.numeric /\ b.numeric THEN b.n - a.n ELSE 0

\* the comparator is a consistent comparator for these entries
Consistent(entries) ==
    \A i, j, k \in 1..Len(entries) :
        Compare(entries[i], entries[j]) = 0 /\ Compare(entries[j], entries[k]) = 0
            => Compare(entries[i], entries[k]) = 0

\* Array.prototype.sort is stable: position of entry k in the sorted list
StableRank(entries, k) ==
    1 + Cardinality({j \in 1..Len(entries) :
                        \/ Compare(entries[j], entries[k]) < 0
                        \/ Compare(entries[j], entries[k]) = 0 /\ j < k})

StableSort(entries) ==
    LET sorted == [r \in 1..Len(entries) |->
                      entries[CHOOSE k \in 1..Len(entries) :
                                  StableRank(entries, k) = r]]
    IN  SubSeq(sorted, 1, Len(entries))

Reorderings(entries) ==
    {SubSeq([r \in 1..Len(entries) |-> entries[p[r]]], 1, Len(entries)) :
        p \in {q \in [1..Len(entries) -> 1..Len(entries)] :
                  \A a, b \in 1..Len(entries) : q[a] = q[b] => a = b}}

\* what .sort((a, b) => b[1] - a[1]) may leave: the stable order for a
\* consistent comparator, an implementation-defined order otherwise
SortOutcomes(entries) ==
    IF Consistent(entries) THEN {StableSort(entries)} ELSE Reorderings(entries)

\* .slice(0, limit).map(([word]) => word)
TopWords(sorted, limit) ==
    LET kept == SubSeq(sorted, 1, Min({limit, Len(sorted)}))
    IN  SubSeq([k \in 1..Len(kept) |-> kept[k].word], 1, Len(kept))

\* the lists extractKeywords(text, limit) may return
extractKeywords(text, limit) ==
    {TopWords(sorted, limit) :
        sorted \in SortOutcomes(CountsAfter(CountedWords(text),
                                            Len(CountedWords(text))))}

KwIdle ==
    /\ kwText = <<>>
    /\ kwLimit = DefaultLimit
    /\ kwResult = <<>>
    /\ kPc = "idle"

KwStart ==
    /\ kwText \in KwTexts
    /\ kwLimit \in KwLimits
    /\ kwResult = <<>>
    /\ kPc = "called"

KwUnchangedOthers ==
    UNCHANGED <<normVars, diffVars, mapVars, jobVars, llmVars, appVars, rebuildVars, tabVars, parseVars, scrapeVars>>

\* one call of extractKeywords
ExtractKeywords ==
    /\ kPc = "called"
    /\ kwResult' \in extractKeywords(kwText, kwLimit)
    /\ kPc' = "returned"
    /\ UNCHANGED <<kwText, kwLimit>>
    /\ KwUnchangedOthers

KwNext == ExtractKeywords

-----------------------------------------------------------------------------
(* The side panel, continued: generateTailoredResume and fallbackTailor,
   src/app.js:525-562 and 698-766 *)

SqlText == <<"S", "Q", "L">>
TailoredReply == <<"S", "Q", "L", " ", "d", "e", "v">>

\* extractJobRequirements(job.description), lines 280-328, kept abstract:
\* whatever the description, nothing is found, or one skill and one
\* requirement are
JobRequirementsOutcomes ==
    {[requirements |-> <<>>, skills |-> <<>>],
     [requirements |-> <<SqlText>>, skills |-> <<SqlText>>]}

DigitOf(n) == <<"0", "1", "2", "3", "4", "5", "6", "7", "8", "9">>[n + 1]

\* the forEach of lines 556-558 over reqs[1..k]
RECURSIVE FocusLines(_, _)
FocusLines(reqs, k) ==
    IF k = 0 THEN <<>>
    ELSE FocusLines(reqs, k - 1)
             \o <<" ", " ", DigitOf(k), ".", " ">> \o reqs[k] \o <<"\n">>

\* Array.prototype.slice(0, n)
Slice(list, n) == SubSeq(list, 1, Min({n, Len(list)}))

\* lines 535-561, given the keyword list and the requirements found
TailoredWith(resumeText, keywords, jobRequirements) ==
    LET matchedKeywords ==
            SelectSeq(keywords,
                      LAMBDA kw : Includes(ToLowerCase(resumeText), ToLowerCase(kw)))
        expertise ==
            IF Len(matchedKeywords) > 0
            THEN <<"R", "e", "l", "e", "v", "a", "n", "t", " ", "e", "x", "p", "e", "r", "t", "i", "s", "e", ":", " ">>
                     \o Join(Slice(matchedKeywords, 8), <<",", " ">>) \o <<"\n">>
            ELSE <<>>
        target ==
            IF Len(jobRequirements.skills) > 0
            THEN <<"T", "a", "r", "g", "e", "t", " ", "s", "k", "i", "l", "l", "s", ":", " ">>
                     \o Join(Slice(jobRequirements.skills, 6), <<",", " ">>)
                     \o <<"\n">>
            ELSE <<>>
        focus ==
            IF Len(jobRequirements.requirements) > 0
            THEN <<"K", "e", "y", " ", "f", "o", "c", "u", "s", " ", "a", "r", "e", "a", "s", ":", "\n">>
                     \o FocusLines(Slice(jobRequirements.requirements, 5),
                                   Len(Slice(jobRequirements.requirements, 5)))
            ELSE <<>>
    IN  IF Len(keywords) = 0 /\ Len(jobRequirements.skills) = 0
        THEN resumeText
        ELSE resumeText \o <<"\n", "-", "-", "-", " ", "T", "A", "I", "L", "O", "R", "E", "D", " ", "F", "O", "R", " ", "T", "H", "I", "S", " ", "R", "O", "L", "E", " ", "-", "-", "-", "\n">> \o expertise \o target \o focus

\* the texts fallbackTailor(resumeText, job) may return
fallbackTailor(resumeText, job) ==
    {TailoredWith(resumeText, keywords, jobRequirements) :
        keywords \in extractKeywords(job.description \o <<" ">> \o job.additional,
                                     DefaultLimit),
        jobRequirements \in JobRequirementsOutcomes}

CommonPrefix(a, b) ==
    Max({k \in 0..Min({Len(a), Len(b)}) : SubSeq(a, 1, k) = SubSeq(b, 1, k)})

CommonSuffix(a, b) ==
    Max({k \in 0..Min({Len(a), Len(b)}) :
            SubSeq(a, Len(a) - k + 1, Len(a)) = SubSeq(b, Len(b) - k + 1, Len(b))})

NonEmptySegments(d) == SelectSeq(d, LAMBDA segment : segment.text # <<>>)

\* dmp.diff_main + dmp.diff_cleanupSemantic for two texts: the library is not
\* part of the sources; the scripts used here keep the common prefix and
\* suffix, or replace the whole text
DiffMainOutcomes(text1, text2) ==
    LET p == CommonPrefix(text1, text2)
        rest1 == SubSeq(text1, p + 1, Len(text1))
        rest2 == SubSeq(text2, p + 1, Len(text2))
        s == CommonSuffix(rest1, rest2)
    IN  {NonEmptySegments(
             <<[op |-> DIFF_EQUAL, text |-> SubSeq(text1, 1, p)],
               [op |-> DIFF_DELETE, text |-> SubSeq(rest1, 1, Len(rest1) - s)],
               [op |-> DIFF_INSERT, text |-> SubSeq(rest2, 1, Len(rest2) - s)],
               [op |-> DIFF_EQUAL,
                text |-> SubSeq(rest1, Len(rest1) - s + 1, Len(rest1))]>>)}
        \cup
        (IF text1 = text2 THEN {}
         ELSE {NonEmptySegments(<<[op |-> DIFF_DELETE, text |-> text1],
                                  [op |-> DIFF_INSERT, text |-> text2]>>)})

\* what callOpenAi may resolve with (content.trim(), not empty), next to
\* what safeJsonParse(responseText).tailoredText is for it
OpenAiAnswers ==
    {[responseText |-> TailoredReply, tailoredText |-> Undefined],
     [responseText |-> <<"{", "\"", "t", "a", "i", "l", "o", "r", "e", "d", "T", "e", "x", "t", "\"", ":", "\"", "S", "Q", "L", " ", "d", "e", "v", "\"", "}">>, tailoredText |-> Str(TailoredReply)],
     [responseText |-> <<"{", "\"", "t", "a", "i", "l", "o", "r", "e", "d", "T", "e", "x", "t", "\"", ":", "\"", "\"", "}">>, tailoredText |-> Str(<<>>)]}

\* what callGeneric may resolve with: a text, or '' when the answer has none
\* of the four properties
GenericAnswers == {TailoredReply, <<>>}

\* lines 733-734
TailoredTextOf(answer) ==
    IF Truthy(answer.tailoredText) THEN answer.tailoredText.chars
    ELSE answer.responseText

\* lines 749-761, given what the diff library returned
StoreTailored(resumeText, tailoredText, diffs) ==
    LET diffResult == computeDiffs(diffs)
    IN  [resumeText |-> resumeText,
         tailoredText |-> tailoredText,
         diffsWithGroup |-> diffResult.diffsWithGroup,
         diffGroups |-> diffResult.groups]

\* `state` when the catch block of lines 762-765 is reached from the call
StateAfterFailure_storesResume(st, resumeText) ==
    [st EXCEPT !.resumeText = resumeText]

StateAfterFailure(st, resumeText) ==
    st

TailorUnchangedOthers ==
    UNCHANGED <<normVars, dOriginal, dCandidate, dDiffs, lastOp, mapVars,
                jobVars, llmVars, kwVars, rebuildVars, tabVars, parseVars, scrapeVars>>

\* click on generate: generateTailoredResume up to await getSettings(),
\* lines 699-719
ClickGenerate ==
    /\ Len(ops) < MaxClicks
    /\ LET resumeText == Trim(elements.resumeText)
           description == Slice(Trim(elements.jobDescription), 6000)
           additional == Slice(Trim(elements.additionalContext), 2000)
       IN  IF resumeText = <<>>
           THEN /\ elements' = setStatus(elements,
                                  "Please upload and extract a resume DOCX first.")
                /\ ops' = Append(ops, [NewOp("tailor") EXCEPT !.pc = "done"])
           ELSE IF description = <<>>
           THEN /\ elements' = setStatus(elements, "Add a job description first.")
                /\ ops' = Append(ops, [NewOp("tailor") EXCEPT !.pc = "done"])
           ELSE /\ elements' = setStatus(elements, "Generating tailored resume...")
                /\ ops' = Append(ops, [NewOp("tailor") EXCEPT
                                         !.pc = "awaitSettings",
                                         !.resumeText = resumeText,
                                         !.jobDescription = description,
                                         !.jobAdditional = additional])
    /\ UNCHANGED <<settings, netCalls, state, finalText>>
    /\ TailorUnchangedOthers

\* lines 745-761 for a tailored text that is not empty
TailoredReady(i, op, tailoredText) ==
    \E diffs \in DiffMainOutcomes(op.resumeText, tailoredText) :
        /\ state' = StoreTailored(op.resumeText, tailoredText, diffs)
        /\ finalText' = BuildFinalTextOf(StoreTailored(op.resumeText, tailoredText,
                                                       diffs))
        /\ elements' = setStatus(elements,
                                 "Tailored resume ready. Review changes below.")
        /\ ops' = [ops EXCEPT ![i] = Returned(op)]

\* the catch block, lines 762-765
TailoringFailed(i, op) ==
    /\ state' = StateAfterFailure(state, op.resumeText)
    /\ finalText' = finalText
    /\ elements' = setStatus(elements,
                      "Tailoring failed. Check your OpenAI API key and try again.")
    /\ ops' = [ops EXCEPT ![i] = Returned([op EXCEPT !.llmOutcome = "failed"])]

\* getSettings() resolves in generateTailoredResume: lines 719-747 up to the
\* network call, if there is one
TailorSettingsRead(i) ==
    /\ Suspended(i, "awaitSettings")
    /\ ops[i].kind = "tailor"
    /\ LET op == [ops[i] EXCEPT !.settings = settings]
           job == [description |-> op.jobDescription, additional |-> op.jobAdditional]
       IN  IF settings.llmApiKey = <<>>
           THEN /\ \E tailoredText \in fallbackTailor(op.resumeText, job) :
                      TailoredReady(i, [op EXCEPT !.fallbackRuns = @ + 1,
                                                  !.used = "fallback"],
                                    tailoredText)
                /\ netCalls' = netCalls
           ELSE IF settings.llmMode = "openai" /\ settings.llmEndpoint = <<>>
           THEN \* callOpenAi throws before it fetches, line 421
                /\ TailoringFailed(i, [op EXCEPT !.llmAttempts = @ + 1])
                /\ netCalls' = netCalls
           ELSE IF settings.llmMode \in {"openai", "generic"}
           THEN /\ ops' = [ops EXCEPT ![i] = [op EXCEPT !.pc = "awaitLlm",
                                                       !.llmAttempts = @ + 1]]
                /\ netCalls' = Append(netCalls, [op |-> i, to |-> "llm"])
                /\ UNCHANGED <<elements, state, finalText>>
           ELSE \* no branch assigns tailoredText: line 745 throws
                /\ TailoringFailed(i, op)
                /\ netCalls' = netCalls
    /\ UNCHANGED settings
    /\ TailorUnchangedOthers

\* callOpenAi / callGeneric rejects: non-success response, empty content
TailorCallFails(i) ==
    /\ Suspended(i, "awaitLlm")
    /\ ops[i].kind = "tailor"
    /\ TailoringFailed(i, ops[i])
    /\ UNCHANGED <<settings, netCalls>>
    /\ TailorUnchangedOthers

\* callOpenAi / callGeneric resolves: lines 731-761
TailorCallAnswers(i) ==
    /\ Suspended(i, "awaitLlm")
    /\ ops[i].kind = "tailor"
    /\ \E tailoredText \in IF ops[i].settings.llmMode = "openai"
                           THEN {TailoredTextOf(answer) : answer \in OpenAiAnswers}
                           ELSE GenericAnswers :
          IF tailoredText = <<>>
          THEN TailoringFailed(i, ops[i])
          ELSE TailoredReady(i, [ops[i] EXCEPT !.llmOutcome = "ok",
                                               !.used = "llm"],
                             tailoredText)
    /\ UNCHANGED <<settings, netCalls>>
    /\ TailorUnchangedOthers

AppNext ==
    \/ ClickScrape
    \/ ClickDeepScrape
    \/ ClickGenerate
    \/ \E i \in 1..MaxClicks :
          \/ ScrapeMessageFails(i)
          \/ ScrapeAnswered(i)
          \/ ScrapeSettingsRead(i)
          \/ DeepSettingsRead(i)
          \/ ExaFails(i)
          \/ ExaAnswered(i)
          \/ LlmStrategyFails(i)
          \/ LlmStrategySucceeds(i)
          \/ TailorSettingsRead(i)
          \/ TailorCallFails(i)
          \/ TailorCallAnswers(i)

-----------------------------------------------------------------------------
(* rebuildDocx, src/background.js:384-597 *)

MaxRebuildRuns == 2     \* most runs in modifiedRuns

JSZipNotLoaded == <<"J", "S", "Z", "i", "p", " ", "l", "i", "b", "r", "a", "r", "y", " ", "n", "o", "t", " ", "l", "o", "a", "d", "e", "d">>
BufferMissing == <<"O", "r", "i", "g", "i", "n", "a", "l", " ", "D", "O", "C", "X", " ", "b", "u", "f", "f", "e", "r", " ", "i", "s", " ", "m", "i", "s", "s", "i", "n", "g">>
NoModifiedRuns == <<"N", "o", " ", "m", "o", "d", "i", "f", "i", "e", "d", " ", "r", "u", "n", "s", " ", "p", "r", "o", "v", "i", "d", "e", "d">>
FailedToLoad == <<"F", "a", "i", "l", "e", "d", " ", "t", "o", " ", "l", "o", "a", "d", " ", "D", "O", "C", "X", ":", " ">>
MissingDocumentXml == <<"D", "o", "c", "u", "m", "e", "n", "t", " ", "s", "t", "r", "u", "c", "t", "u", "r", "e", " ", "c", "o", "r", "r", "u", "p", "t", "e", "d", ":", " ", "m", "i", "s", "s", "i", "n", "g", " ", "w", "o", "r", "d", "/", "d", "o", "c", "u", "m", "e", "n", "t", ".", "x", "m", "l">>
FailedToRead == <<"F", "a", "i", "l", "e", "d", " ", "t", "o", " ", "r", "e", "a", "d", " ", "d", "o", "c", "u", "m", "e", "n", "t", ":", " ">>
XmlParsingFailed == <<"X", "M", "L", " ", "p", "a", "r", "s", "i", "n", "g", " ", "f", "a", "i", "l", "e", "d", " ", "d", "u", "r", "i", "n", "g", " ", "r", "e", "b", "u", "i", "l", "d", ".", " ", "D", "o", "c", "u", "m", "e", "n", "t", " ", "m", "a", "y", " ", "b", "e", " ", "c", "o", "r", "r", "u", "p", "t", "e", "d", ".">>
NoParagraphs == <<"N", "o", " ", "p", "a", "r", "a", "g", "r", "a", "p", "h", "s", " ", "f", "o", "u", "n", "d", " ", "i", "n", " ", "d", "o", "c", "u", "m", "e", "n", "t", " ", "d", "u", "r", "i", "n", "g", " ", "r", "e", "b", "u", "i", "l", "d">>
FailedToRebuild == <<"F", "a", "i", "l", "e", "d", " ", "t", "o", " ", "r", "e", "b", "u", "i", "l", "d", " ", "D", "O", "C", "X", ":", " ">>
\* the message of an error the zip library throws
LibraryMessage == <<"C", "o", "r", "r", "u", "p", "t", "e", "d", " ", "z", "i", "p">>

\* the prefixes the catch block lets through, lines 584-591
OwnErrorPrefixes ==
    {<<"J", "S", "Z", "i", "p">>,
     <<"O", "r", "i", "g", "i", "n", "a", "l">>,
     <<"N", "o", " ", "m", "o", "d", "i", "f", "i", "e", "d">>,
     <<"F", "a", "i", "l", "e", "d", " ", "t", "o", " ", "l", "o", "a", "d">>,
     <<"D", "o", "c", "u", "m", "e", "n", "t", " ", "s", "t", "r", "u", "c", "t", "u", "r", "e">>,
     <<"F", "a", "i", "l", "e", "d", " ", "t", "o", " ", "r", "e", "a", "d">>,
     <<"X", "M", "L", " ", "p", "a", "r", "s", "i", "n", "g">>,
     <<"N", "o", " ", "p", "a", "r", "a", "g", "r", "a", "p", "h", "s">>}

\* the catch block, lines 581-596: the message of the error that leaves
\* rebuildDocx when `message` was thrown inside the try
Rethrown_alwaysWrapped(message) ==
    FailedToRebuild \o message

Rethrown(message) ==
    IF message # <<>> /\ \E prefix \in OwnErrorPrefixes : StartsAt(message, 1, prefix)
    THEN message
    ELSE FailedToRebuild \o message

\* a run node of word/document.xml: the text of its w:t and its w:rPr (NULL
\* when it has none)
RunNode(text, rPr) == [text |-> text, rPr |-> rPr]

\* the paragraphs of the documents: none, one paragraph of one run, two
\* paragraphs of two and of no runs
RebuildDocuments ==
    {<<>>,
     <<<<RunNode(<<"a">>, <<1>>)>>>>,
     <<<<RunNode(<<"a">>, <<1>>), RunNode(<<"b">>, NULL)>>, <<>>>>}

FullDocument == <<<<RunNode(<<"a">>, <<1>>), RunNode(<<"b">>, NULL)>>, <<>>>>

\* what is handed to rebuildDocx and what the page has loaded: whether
\* window.JSZip is there, whether a buffer is given, whether it is a zip
\* archive, whether it holds word/document.xml, whether that entry can be
\* read and is well-formed XML, and its paragraphs
Docx(jsZip, given, isZip, hasDocument, readable, wellFormed, paragraphs) ==
    [jsZip |-> jsZip, given |-> given, isZip |-> isZip,
     hasDocument |-> hasDocument, readable |-> readable,
     wellFormed |-> wellFormed, paragraphs |-> paragraphs]

DocxInputs ==
    {Docx(TRUE, TRUE, TRUE, TRUE, TRUE, TRUE, paragraphs) :
        paragraphs \in RebuildDocuments}
    \cup
    {Docx(FALSE, TRUE, TRUE, TRUE, TRUE, TRUE, FullDocument),
     Docx(TRUE, FALSE, TRUE, TRUE, TRUE, TRUE, FullDocument),
     Docx(TRUE, TRUE, FALSE, TRUE, TRUE, TRUE, FullDocument),
     Docx(TRUE, TRUE, TRUE, FALSE, TRUE, TRUE, FullDocument),
     Docx(TRUE, TRUE, TRUE, TRUE, FALSE, TRUE, FullDocument),
     Docx(TRUE, TRUE, TRUE, TRUE, TRUE, FALSE, FullDocument)}

\* the runs of modifiedRuns: with the cloned rPr of a source run, without it
\* but with properties, or with neither
NewRuns ==
    {[text |-> text, properties |-> format[2], paragraphIndex |-> p,
      runIndex |-> 0, originalRPr |-> format[1]] :
        text \in {<<"x">>, <<" ", "y">>},
        p \in {0, 1},
        format \in {<<<<7>>, 1>>, <<NULL, 1>>, <<NULL, EmptyProperties>>}}

\* modifiedRuns: undefined, or a list of runs
MissingRuns == [given |-> FALSE, list |-> <<>>]
ModifiedRunLists ==
    {MissingRuns} \cup
    {[given |-> TRUE, list |-> list] :
        list \in UNION {[1..n -> NewRuns] : n \in 0..MaxRebuildRuns}}

\* runsByPara[pIdx] || [], lines 435-449
ParaRuns(list, pIdx) ==
    SelectSeq(list, LAMBDA run : run.paragraphIndex = pIdx)

\* lines 457-493: an existing run node rewritten with a new run
RewrittenNode(node, newRun) ==
    RunNode(newRun.text,
            IF newRun.originalRPr # NULL THEN newRun.originalRPr ELSE node.rPr)

\* lines 505-554: a run node created for a new run
CreatedNode(newRun) ==
    RunNode(newRun.text,
            IF newRun.originalRPr # NULL THEN newRun.originalRPr
            ELSE IF newRun.properties # EmptyProperties
            THEN <<"rPr", newRun.properties>>
            ELSE NULL)

\* lines 444-558: the paragraphs after the replacement loop
ReplacedParagraphs(paragraphs, list) ==
    LET replaced ==
            [p \in 1..Len(paragraphs) |->
                LET paraRuns == ParaRuns(list, p - 1)
                    nodes == [k \in 1..Len(paraRuns) |->
                                 IF k <= Len(paragraphs[p])
                                 THEN RewrittenNode(paragraphs[p][k], paraRuns[k])
                                 ELSE CreatedNode(paraRuns[k])]
                IN  SubSeq(nodes, 1, Len(paraRuns))]
    IN  SubSeq(replaced, 1, Len(paragraphs))

NoBlob == <<>>

RebuildIdle ==
    /\ docx = Docx(TRUE, TRUE, TRUE, TRUE, TRUE, TRUE, <<>>)
    /\ modifiedRuns = MissingRuns
    /\ zipDocument = <<>>
    /\ rebuilt = NoBlob
    /\ rbError = <<>>
    /\ rbPc = "idle"

\* rebuildDocx is called; zipDocument is word/document.xml as the loaded
\* archive holds it
RebuildStart ==
    /\ docx \in DocxInputs
    /\ modifiedRuns \in ModifiedRunLists
    /\ zipDocument = docx.paragraphs
    /\ rebuilt = NoBlob
    /\ rbError = <<>>
    /\ rbPc = "called"

RebuildUnchangedOthers ==
    UNCHANGED <<normVars, diffVars, mapVars, jobVars, llmVars, appVars, kwVars, tabVars, parseVars, scrapeVars>>

\* an error with this message is thrown inside the try
RebuildThrows(message) ==
    /\ rbError' = Rethrown(message)
    /\ rbPc' = "threw"
    /\ UNCHANGED <<docx, modifiedRuns, zipDocument, rebuilt>>

\* lines 386-403: the checks of the arguments, up to await loadAsync
CheckArguments ==
    /\ rbPc = "called"
    /\ IF ~docx.jsZip THEN RebuildThrows(JSZipNotLoaded)
       ELSE IF ~docx.given THEN RebuildThrows(BufferMissing)
       ELSE IF ~modifiedRuns.given \/ Len(modifiedRuns.list) = 0
       THEN RebuildThrows(NoModifiedRuns)
       ELSE /\ rbPc' = "loading"
            /\ UNCHANGED <<docx, modifiedRuns, zipDocument, rebuilt, rbError>>
    /\ RebuildUnchangedOthers

\* JSZip.loadAsync rejects: lines 404-406
LoadFails ==
    /\ rbPc = "loading"
    /\ ~docx.isZip
    /\ RebuildThrows(FailedToLoad \o LibraryMessage)
    /\ RebuildUnchangedOthers

\* JSZip.loadAsync resolves: lines 408-414, up to await documentFile.async
ZipLoaded ==
    /\ rbPc = "loading"
    /\ docx.isZip
    /\ IF ~docx.hasDocument THEN RebuildThrows(MissingDocumentXml)
       ELSE /\ rbPc' = "reading"
            /\ UNCHANGED <<docx, modifiedRuns, zipDocument, rebuilt, rbError>>
    /\ RebuildUnchangedOthers

\* documentFile.async('string') rejects: lines 416-418
ReadFails ==
    /\ rbPc = "reading"
    /\ ~docx.readable
    /\ RebuildThrows(FailedToRead \o LibraryMessage)
    /\ RebuildUnchangedOthers

\* documentFile.async('string') resolves: lines 420-570, the parsing, the
\* replacement of the runs and zip.file('word/document.xml', ...), up to
\* await zip.generateAsync
DocumentRead ==
    /\ rbPc = "reading"
    /\ docx.readable
    /\ IF ~docx.wellFormed THEN RebuildThrows(XmlParsingFailed)
       ELSE IF Len(docx.paragraphs) = 0 THEN RebuildThrows(NoParagraphs)
       ELSE /\ zipDocument' = ReplacedParagraphs(docx.paragraphs, modifiedRuns.list)
            /\ rbPc' = "generating"
            /\ UNCHANGED <<docx, modifiedRuns, rebuilt, rbError>>
    /\ RebuildUnchangedOthers

\* zip.generateAsync rejects
GenerateFails ==
    /\ rbPc = "generating"
    /\ RebuildThrows(LibraryMessage)
    /\ RebuildUnchangedOthers

\* zip.generateAsync resolves: lines 573-578
BlobGenerated ==
    /\ rbPc = "generating"
    /\ rebuilt' = <<zipDocument>>
    /\ rbPc' = "returned"
    /\ UNCHANGED <<docx, modifiedRuns, zipDocument, rbError>>
    /\ RebuildUnchangedOthers

RebuildNext ==
    \/ CheckArguments
    \/ LoadFails
    \/ ZipLoaded
    \/ ReadFails
    \/ DocumentRead
    \/ GenerateFails
    \/ BlobGenerated

-----------------------------------------------------------------------------
(* waitForTabLoad, src/unnamed/part_000:103-124 (the same code is in
   src/popup.js:61-82) *)

MaxTabEvents == 3           \* tabs.onUpdated events in one run
DefaultTimeoutMs == 15000   \* timeoutMs = 15000
TickMs == 5000              \* the step in which time is observed

TabIds == {1, 2}
TabStatuses == {"loading", "complete"}
TimeoutValues == {DefaultTimeoutMs, TickMs}

\* a slip: the tab id is not compared
Completes_anyTab(updatedTabId, info, tabId) ==
    info = "complete"

\* updatedTabId === tabId && info.status === 'complete'
Completes(updatedTabId, info, tabId) ==
    updatedTabId = tabId /\ info = "complete"

TabIdle ==
    /\ awaitedTab = 1
    /\ timeoutMs = DefaultTimeoutMs
    /\ elapsedMs = 0
    /\ timerSet = FALSE
    /\ listening = FALSE
    /\ promise = "none"
    /\ settleCalls = 0
    /\ delivered = <<>>
    /\ fired = 0

\* the caller is about to call waitForTabLoad(tabId, timeoutMs)
TabStart ==
    /\ awaitedTab \in TabIds
    /\ timeoutMs \in TimeoutValues
    /\ elapsedMs = 0
    /\ timerSet = FALSE
    /\ listening = FALSE
    /\ promise = "none"
    /\ settleCalls = 0
    /\ delivered = <<>>
    /\ fired = 0

TabUnchangedOthers ==
    UNCHANGED <<normVars, diffVars, mapVars, jobVars, llmVars, appVars, kwVars,
                rebuildVars, parseVars, scrapeVars>>

\* the executor of the promise, lines 104-122: the timer is set, the
\* listener is added
WaitForTabLoad ==
    /\ promise = "none"
    /\ promise' = "pending"
    /\ timerSet' = TRUE
    /\ listening' = TRUE
    /\ elapsedMs' = 0
    /\ UNCHANGED <<awaitedTab, timeoutMs, settleCalls, delivered, fired>>
    /\ TabUnchangedOthers

\* resolve() or reject(): only the first call settles the promise
Settle(outcome) ==
    /\ promise' = IF promise = "pending" THEN outcome ELSE promise
    /\ settleCalls' = settleCalls + 1

\* cleanup(), lines 110-113
Cleanup ==
    /\ timerSet' = FALSE
    /\ listening' = FALSE

\* chrome fires tabs.onUpdated: onUpdated runs when it is a listener, lines
\* 115-120; without a listener the event passes unseen
TabUpdated(updatedTabId, info) ==
    /\ fired < MaxTabEvents
    /\ fired' = fired + 1
    /\ IF listening
       THEN /\ delivered' = Append(delivered, <<updatedTabId, info>>)
            /\ IF Completes(updatedTabId, info, awaitedTab)
               THEN Cleanup /\ Settle("resolved")
               ELSE UNCHANGED <<timerSet, listening, promise, settleCalls>>
       ELSE UNCHANGED <<delivered, timerSet, listening, promise, settleCalls>>
    /\ UNCHANGED <<awaitedTab, timeoutMs, elapsedMs>>
    /\ TabUnchangedOthers

\* time passes while the timer runs
Tick ==
    /\ timerSet
    /\ elapsedMs < timeoutMs
    /\ elapsedMs' = elapsedMs + TickMs
    /\ UNCHANGED <<awaitedTab, timeoutMs, timerSet, listening, promise,
                   settleCalls, delivered, fired>>
    /\ TabUnchangedOthers

\* the setTimeout callback, lines 105-108
TimerFires ==
    /\ timerSet
    /\ elapsedMs >= timeoutMs
    /\ Cleanup
    /\ Settle("rejected")
    /\ UNCHANGED <<awaitedTab, timeoutMs, elapsedMs, delivered, fired>>
    /\ TabUnchangedOthers

TabNext ==
    \/ WaitForTabLoad
    \/ \E updatedTabId \in TabIds, info \in TabStatuses :
          TabUpdated(updatedTabId, info)
    \/ Tick
    \/ TimerFires

-----------------------------------------------------------------------------
(* parseDocxStructure, src/background.js:92-202, on a document the DOM
   parser has read: a list of paragraphs, each a list of run nodes *)

MaxParagraphs == 2      \* most paragraphs in word/document.xml
\* the number of w:r nodes a paragraph may hold
RunCounts == {0, 1, 2}
\* the joined w:t texts a run node may have
NodeTexts == {<<>>, <<"a">>, <<" ">>}
\* what extractPropertiesFromDOM may answer for a run node: {} or an object
NodeProperties == {EmptyProperties, 1}

NoParagraphsFound ==
    "No paragraphs found in document. Document may be empty or corrupted."
NoTextContent ==
    "No text content found in document. Document may be empty or contain only images/tables."

\* a w:r node: its text and its properties; a node with properties has an
\* rPr child, which is cloned
ParsedNodes == [text : NodeTexts, properties : NodeProperties]
ParagraphNodes ==
    UNION {[1..n -> ParsedNodes] : n \in RunCounts}
ParsedDocuments ==
    UNION {[1..n -> ParagraphNodes] : n \in 0..MaxParagraphs}

\* text || Object.keys(properties).length > 0
Pushed(node) ==
    node.text # <<>> \/ node.properties # EmptyProperties

\* the runs pushed for one paragraph, lines 129-184: runIndex counts the
\* pushed runs only
ParagraphRuns(paragraph, paragraphIndex) ==
    LET kept == SelectSeq(paragraph, Pushed)
    IN  SubSeq([k \in 1..Len(kept) |->
                  [text |-> kept[k].text,
                   properties |-> kept[k].properties,
                   paragraphIndex |-> paragraphIndex,
                   runIndex |-> k - 1,
                   originalRPr |-> IF kept[k].properties # EmptyProperties
                                   THEN <<kept[k].properties>>
                                   ELSE NULL]],
               1, Len(kept))

NoStructure == <<>>

ParseIdle ==
    /\ psParagraphs = <<>>
    /\ psIdx = 0
    /\ pRuns = <<>>
    /\ plainText = <<>>
    /\ structure = NoStructure
    /\ psError = ""
    /\ psPc = "idle"

\* the document has been parsed, line 92, and the paragraphs are looked up
ParseStart ==
    /\ psParagraphs \in ParsedDocuments
    /\ psIdx = 0
    /\ pRuns = <<>>
    /\ plainText = <<>>
    /\ structure = NoStructure
    /\ psError = ""
    /\ psPc = "call"

ParseUnchangedOthers ==
    UNCHANGED <<normVars, diffVars, mapVars, jobVars, llmVars, appVars, kwVars,
                rebuildVars, tabVars, scrapeVars>>

\* lines 109-111: no paragraphs
CheckParagraphs ==
    /\ psPc = "call"
    /\ IF Len(psParagraphs) = 0
       THEN psError' = NoParagraphsFound /\ psPc' = "failed"
       ELSE psError' = psError /\ psPc' = "loop"
    /\ UNCHANGED <<psParagraphs, psIdx, pRuns, plainText, structure>>
    /\ ParseUnchangedOthers

\* one pass of the loop over the paragraphs, lines 114-191
ProcessParagraph ==
    /\ psPc = "loop"
    /\ psIdx < Len(psParagraphs)
    /\ LET pushed == ParagraphRuns(psParagraphs[psIdx + 1], psIdx)
       IN  /\ pRuns' = pRuns \o pushed
           /\ plainText' = plainText \o RunsText(pushed)
                  \o (IF psIdx < Len(psParagraphs) - 1 THEN <<"\n">> ELSE <<>>)
    /\ psIdx' = psIdx + 1
    /\ UNCHANGED <<psParagraphs, structure, psError, psPc>>
    /\ ParseUnchangedOthers

\* lines 193-202: nothing found, or the structure is returned
FinishStructure ==
    /\ psPc = "loop"
    /\ psIdx = Len(psParagraphs)
    /\ IF Len(pRuns) = 0 /\ Len(Trim(plainText)) = 0
       THEN /\ psError' = NoTextContent
            /\ psPc' = "failed"
            /\ UNCHANGED structure
       ELSE /\ structure' = [runs |-> pRuns, plainText |-> Trim(plainText)]
            /\ psPc' = "done"
            /\ UNCHANGED psError
    /\ UNCHANGED <<psParagraphs, psIdx, pRuns, plainText>>
    /\ ParseUnchangedOthers

ParseNext ==
    \/ CheckParagraphs
    \/ ProcessParagraph
    \/ FinishStructure

-----------------------------------------------------------------------------
(* scrapeUrl, src/unnamed/part_000:148-175 (src/popup.js:84-103 is the same
   code), with the waitForTabLoad it awaits.  A continuation of scrapeUrl
   runs in the same task as the callback that settles the awaited promise,
   so the two are one step. *)

InvalidUrl == "Please provide a valid http(s) URL."
TimedOut == "Timed out waiting for tab to load."
CreateFailed == "tabs.create failed"
InjectFailed == "executeScript failed"
MessageFailed == "sendMessage failed"

ScrapeUrls ==
    {<<>>,
     <<"h", "t", "t", "p", ":", "/", "/", "j">>,
     <<"H", "T", "T", "P", "S", ":", "/", "/", "j">>,
     <<"f", "t", "p", ":", "/", "/", "j">>,
     <<" ", "h", "t", "t", "p", ":", "/", "/", "j">>}

\* url && /^https?:\/\//i.test(url)
ValidUrl(url) ==
    /\ url # <<>>
    /\ \/ StartsAt(ToLowerCase(url), 1, <<"h", "t", "t", "p", ":", "/", "/">>)
       \/ StartsAt(ToLowerCase(url), 1,
                   <<"h", "t", "t", "p", "s", ":", "/", "/">>)

\* a slip: the tab is removed at the end of the try block only
RemoveOnExit_onlyOnSuccess(outcome) ==
    outcome = "fulfilled"

\* whether chrome.tabs.remove is called when the try block is left with
\* `outcome`: the finally block runs on every exit, and the id of a tab
\* that chrome.tabs.create returned is set
RemoveOnExit(outcome) ==
    TRUE

ScrapeUrlIdle ==
    /\ sUrl = <<>>
    /\ sPc = "idle"
    /\ sTab = "none"
    /\ loaded = FALSE
    /\ injectCalls = 0
    /\ messageCalls = 0
    /\ removeCalls = 0
    /\ sPromise = "none"
    /\ sError = ""

\* scrapeUrl(url) has been called
ScrapeUrlStart ==
    /\ sUrl \in ScrapeUrls
    /\ sPc = "call"
    /\ sTab = "none"
    /\ loaded = FALSE
    /\ injectCalls = 0
    /\ messageCalls = 0
    /\ removeCalls = 0
    /\ sPromise = "pending"
    /\ sError = ""

ScrapeUrlUnchangedOthers ==
    UNCHANGED <<normVars, diffVars, mapVars, jobVars, llmVars, appVars, kwVars,
                rebuildVars, parseVars>>

WaitUntouched ==
    UNCHANGED <<awaitedTab, timeoutMs, elapsedMs, timerSet, listening, promise,
                settleCalls, delivered, fired>>

\* the try block is left: the finally block, lines 169-174, then the
\* promise of scrapeUrl settles
LeaveTry(outcome, error) ==
    /\ IF RemoveOnExit(outcome)
       THEN removeCalls' = removeCalls + 1 /\ sTab' = "closing"
       ELSE UNCHANGED <<removeCalls, sTab>>
    /\ sPromise' = outcome
    /\ sError' = error
    /\ sPc' = "done"

\* lines 149-153: the URL test, then chrome.tabs.create is called
CallScrapeUrl ==
    /\ sPc = "call"
    /\ IF ValidUrl(sUrl)
       THEN /\ sPc' = "creating"
            /\ UNCHANGED <<sPromise, sError>>
       ELSE /\ sPc' = "done"
            /\ sPromise' = "rejected"
            /\ sError' = InvalidUrl
    /\ UNCHANGED <<sUrl, sTab, loaded, injectCalls, messageCalls, removeCalls>>
    /\ WaitUntouched
    /\ ScrapeUrlUnchangedOthers

\* the browser opens the tab and starts loading the page
BrowserCreatesTab ==
    /\ sPc = "creating"
    /\ sTab = "none"
    /\ sTab' = "loading"
    /\ UNCHANGED <<sUrl, sPc, loaded, injectCalls, messageCalls, removeCalls,
                   sPromise, sError>>
    /\ WaitUntouched
    /\ ScrapeUrlUnchangedOthers

\* chrome.tabs.create rejects: there is no tab and the try block is not
\* entered
CreateFails ==
    /\ sPc = "creating"
    /\ sTab = "none"
    /\ sPc' = "done"
    /\ sPromise' = "rejected"
    /\ sError' = CreateFailed
    /\ UNCHANGED <<sUrl, sTab, loaded, injectCalls, messageCalls, removeCalls>>
    /\ WaitUntouched
    /\ ScrapeUrlUnchangedOthers

\* chrome.tabs.create resolves with the tab; waitForTabLoad(tab.id) is
\* called, line 157, and its executor sets the timer and adds the listener
CreateResolves ==
    /\ sPc = "creating"
    /\ sTab \in {"loading", "complete"}
    /\ sPc' = "waiting"
    /\ promise' = "pending"
    /\ timerSet' = TRUE
    /\ listening' = TRUE
    /\ elapsedMs' = 0
    /\ UNCHANGED <<awaitedTab, timeoutMs, settleCalls, delivered, fired>>
    /\ UNCHANGED <<sUrl, sTab, loaded, injectCalls, messageCalls, removeCalls,
                   sPromise, sError>>
    /\ ScrapeUrlUnchangedOthers

\* chrome fires tabs.onUpdated.  An event with status 'complete' for the
\* created tab is the end of its load.  onUpdated runs when it is a
\* listener; when it resolves the wait, scrapeUrl goes on to call
\* chrome.scripting.executeScript, lines 160-163
ScrapeTabUpdated(updatedTabId, info) ==
    /\ fired < MaxTabEvents
    /\ fired' = fired + 1
    /\ updatedTabId = awaitedTab => sTab = "loading"
    /\ IF updatedTabId = awaitedTab /\ info = "complete"
       THEN sTab' = "complete" /\ loaded' = TRUE
       ELSE UNCHANGED <<sTab, loaded>>
    /\ IF listening
       THEN /\ delivered' = Append(delivered, <<updatedTabId, info>>)
            /\ IF Completes(updatedTabId, info, awaitedTab)
               THEN /\ Cleanup
                    /\ Settle("resolved")
                    /\ sPc' = "injecting"
                    /\ injectCalls' = injectCalls + 1
               ELSE UNCHANGED <<timerSet, listening, promise, settleCalls, sPc,
                                injectCalls>>
       ELSE UNCHANGED <<delivered, timerSet, listening, promise, settleCalls,
                        sPc, injectCalls>>
    /\ UNCHANGED <<awaitedTab, timeoutMs, elapsedMs>>
    /\ UNCHANGED <<sUrl, messageCalls, removeCalls, sPromise, sError>>
    /\ ScrapeUrlUnchangedOthers

\* time passes while the timer runs
ScrapeTick ==
    /\ timerSet
    /\ elapsedMs < timeoutMs
    /\ elapsedMs' = elapsedMs + TickMs
    /\ UNCHANGED <<awaitedTab, timeoutMs, timerSet, listening, promise,
                   settleCalls, delivered, fired>>
    /\ UNCHANGED <<sUrl, sPc, sTab, loaded, injectCalls, messageCalls,
                   removeCalls, sPromise, sError>>
    /\ ScrapeUrlUnchangedOthers

\* the setTimeout callback rejects the wait; scrapeUrl leaves the try block
LoadTimesOut ==
    /\ sPc = "waiting"
    /\ timerSet
    /\ elapsedMs >= timeoutMs
    /\ Cleanup
    /\ Settle("rejected")
    /\ LeaveTry("rejected", TimedOut)
    /\ UNCHANGED <<awaitedTab, timeoutMs, elapsedMs, delivered, fired>>
    /\ UNCHANGED <<sUrl, loaded, injectCalls, messageCalls>>
    /\ ScrapeUrlUnchangedOthers

\* chrome.scripting.executeScript rejects
InjectFails ==
    /\ sPc = "injecting"
    /\ LeaveTry("rejected", InjectFailed)
    /\ UNCHANGED <<sUrl, loaded, injectCalls, messageCalls>>
    /\ WaitUntouched
    /\ ScrapeUrlUnchangedOthers

\* the script is injected; chrome.tabs.sendMessage(tab.id, SCRAPE_JOB) is
\* called, line 166
InjectSucceeds ==
    /\ sPc = "injecting"
    /\ sPc' = "messaging"
    /\ messageCalls' = messageCalls + 1
    /\ UNCHANGED <<sUrl, sTab, loaded, injectCalls, removeCalls, sPromise,
                   sError>>
    /\ WaitUntouched
    /\ ScrapeUrlUnchangedOthers

\* chrome.tabs.sendMessage rejects
MessageFails ==
    /\ sPc = "messaging"
    /\ LeaveTry("rejected", MessageFailed)
    /\ UNCHANGED <<sUrl, loaded, injectCalls, messageCalls>>
    /\ WaitUntouched
    /\ ScrapeUrlUnchangedOthers

\* the content script answers: return data
MessageAnswered ==
    /\ sPc = "messaging"
    /\ LeaveTry("fulfilled", "")
    /\ UNCHANGED <<sUrl, loaded, injectCalls, messageCalls>>
    /\ WaitUntouched
    /\ ScrapeUrlUnchangedOthers

\* the browser carries out chrome.tabs.remove, which scrapeUrl does not await
BrowserRemovesTab ==
    /\ sTab = "closing"
    /\ sTab' = "closed"
    /\ UNCHANGED <<sUrl, sPc, loaded, injectCalls, messageCalls, removeCalls,
                   sPromise, sError>>
    /\ WaitUntouched
    /\ ScrapeUrlUnchangedOthers

ScrapeUrlNext ==
    \/ CallScrapeUrl
    \/ BrowserCreatesTab
    \/ CreateFails
    \/ CreateResolves
    \/ \E updatedTabId \in TabIds, info \in TabStatuses :
          ScrapeTabUpdated(updatedTabId, info)
    \/ ScrapeTick
    \/ LoadTimesOut
    \/ InjectFails
    \/ InjectSucceeds
    \/ MessageFails
    \/ MessageAnswered
    \/ BrowserRemovesTab

-----------------------------------------------------------------------------
(* The review session, src/app.js:698-835: resume extraction next to
   tailoring, the accept toggles and apply, all on the one session object
   `state` *)

\* what extractDocxText(file) may resolve with: the resume of the form,
\* another resume, a document without text
OtherResumeText == <<"d", "e", "v">>
ExtractedTexts == {ResumeText, OtherResumeText, <<>>}

\* handleExtractResume, lines 814-830, from the moment extractDocxText
\* resolves with `text` (all it did before is write the status line): the
\* text goes to the form field and to state.resumeText; state.tailoredText,
\* state.diffsWithGroup and state.diffGroups are not assigned and
\* renderDiffs is not called
handleExtractResume(text) ==
    /\ elements' = setStatus([elements EXCEPT !.resumeText = text],
                             "Resume extracted.")
    /\ state' = [state EXCEPT !.resumeText = text]
    /\ lastOp' = "extract"
    /\ UNCHANGED <<dOriginal, dCandidate, dDiffs, finalText, settings, ops, netCalls>>
    /\ UNCHANGED <<normVars, mapVars, jobVars, llmVars, kwVars, rebuildVars, tabVars, parseVars, scrapeVars>>

\* applyDiffSelections, lines 832-835: the button works at any time
ApplySelections ==
    /\ finalText' = buildFinalText
    /\ state' = StateAfterBuild(state)
    /\ lastOp' = "apply"
    /\ UNCHANGED <<dOriginal, dCandidate, dDiffs>>
    /\ DiffUnchangedOthers

SessionNext ==
    \/ \E text \in ExtractedTexts : handleExtractResume(text)
    \/ ClickGenerate
    \/ \E i \in 1..MaxClicks :
          \/ TailorSettingsRead(i)
          \/ TailorCallFails(i)
          \/ TailorCallAnswers(i)
    \/ \E k \in 1..MaxSegments : ToggleAccepted(k)
    \/ ApplySelections

-----------------------------------------------------------------------------
(* Specifications *)

InitNorm == NormStart /\ DiffIdle /\ MapIdle /\ JobIdle /\ LlmIdle /\ AppIdle /\ KwIdle /\ RebuildIdle /\ TabIdle /\ ParseIdle /\ ScrapeUrlIdle
SpecNorm == InitNorm /\ [][NormNext]_vars

InitDiff == NormIdle /\ DiffStart /\ MapIdle /\ JobIdle /\ LlmIdle /\ AppIdle /\ KwIdle /\ RebuildIdle /\ TabIdle /\ ParseIdle /\ ScrapeUrlIdle
SpecDiff == InitDiff /\ [][DiffNext]_vars

InitMap == NormIdle /\ DiffIdle /\ MapStart /\ JobIdle /\ LlmIdle /\ AppIdle /\ KwIdle /\ RebuildIdle /\ TabIdle /\ ParseIdle /\ ScrapeUrlIdle
SpecMap == InitMap /\ [][MapNext]_vars

InitJob == NormIdle /\ DiffIdle /\ MapIdle /\ JobStart /\ LlmIdle /\ AppIdle /\ KwIdle /\ RebuildIdle /\ TabIdle /\ ParseIdle /\ ScrapeUrlIdle
SpecJob == InitJob /\ [][JobNext]_vars

InitLlm == NormIdle /\ DiffIdle /\ MapIdle /\ JobIdle /\ LlmStart /\ AppIdle /\ KwIdle /\ RebuildIdle /\ TabIdle /\ ParseIdle /\ ScrapeUrlIdle
SpecLlm == InitLlm /\ [][LlmNext]_vars

InitApp == NormIdle /\ DiffIdle /\ MapIdle /\ JobIdle /\ LlmIdle /\ AppStart /\ KwIdle /\ RebuildIdle /\ TabIdle /\ ParseIdle /\ ScrapeUrlIdle
SpecApp == InitApp /\ [][AppNext]_vars

InitKw == NormIdle /\ DiffIdle /\ MapIdle /\ JobIdle /\ LlmIdle /\ AppIdle /\ KwStart /\ RebuildIdle /\ TabIdle /\ ParseIdle /\ ScrapeUrlIdle
SpecKw == InitKw /\ [][KwNext]_vars

InitRebuild == NormIdle /\ DiffIdle /\ MapIdle /\ JobIdle /\ LlmIdle /\ AppIdle /\ KwIdle /\ RebuildStart /\ TabIdle /\ ParseIdle /\ ScrapeUrlIdle
SpecRebuild == InitRebuild /\ [][RebuildNext]_vars

InitTab == NormIdle /\ DiffIdle /\ MapIdle /\ JobIdle /\ LlmIdle /\ AppIdle /\ KwIdle /\ RebuildIdle /\ TabStart /\ ParseIdle /\ ScrapeUrlIdle
\* the executor runs when the promise is made, time passes and a timer that
\* is due fires
TabFairness ==
    /\ WF_vars(WaitForTabLoad)
    /\ WF_vars(Tick)
    /\ WF_vars(TimerFires)
SpecTab == InitTab /\ [][TabNext]_vars /\ TabFairness

InitParse == NormIdle /\ DiffIdle /\ MapIdle /\ JobIdle /\ LlmIdle /\ AppIdle /\ KwIdle /\ RebuildIdle /\ TabIdle /\ ParseStart /\ ScrapeUrlIdle
SpecParse == InitParse /\ [][ParseNext]_vars

InitScrapeUrl == NormIdle /\ DiffIdle /\ MapIdle /\ JobIdle /\ LlmIdle /\ AppIdle /\ KwIdle /\ RebuildIdle /\ TabIdle /\ ParseIdle /\ ScrapeUrlStart
SpecScrapeUrl == InitScrapeUrl /\ [][ScrapeUrlNext]_vars

\* the loops of mapTextToRuns run to their end: no step waits for anything
SpecMapLive == InitMap /\ [][MapNext]_vars /\ WF_vars(MapNext)

\* a session of extracting, tailoring and reviewing, begun on any form
SpecSession == InitApp /\ [][SessionNext]_vars

-----------------------------------------------------------------------------
(* Properties of the diff engine *)

\* the session object with every group's accepted flag set to `flag`
WithAllAccepted(st, flag) ==
    [st EXCEPT !.diffGroups =
        [k \in 1..Len(st.diffGroups) |-> [st.diffGroups[k] EXCEPT !.accepted = flag]]]

AllGroups(st, flag) ==
    \A k \in 1..Len(st.diffGroups) : st.diffGroups[k].accepted = flag

\* concatenation of a sequence of texts
RECURSIVE Flatten(_)
Flatten(texts) ==
    IF texts = <<>> THEN <<>> ELSE Head(texts) \o Flatten(Tail(texts))

\* the group a grouped segment belongs to
GroupOf(st, segment) ==
    CHOOSE g \in {st.diffGroups[k] : k \in 1..Len(st.diffGroups)} :
        g.id = segment.groupId[1]

\* C1: once computeDiffs has run on (original, candidate), buildFinalText
\* with every group accepted is the candidate and with every group
\* rejected is the original.
C1_RoundTrip ==
    lastOp # "none" =>
        /\ state.resumeText = dOriginal
        /\ state.tailoredText = dCandidate
        /\ BuildFinalTextOf(WithAllAccepted(state, TRUE)) = dCandidate
        /\ BuildFinalTextOf(WithAllAccepted(state, FALSE)) = dOriginal
        /\ AllGroups(state, TRUE) => buildFinalText = dCandidate
        /\ AllGroups(state, FALSE) => buildFinalText = dOriginal

\* C1 witness: the user rejected each of at least two groups, one of them
\* a replacement, applied the selection and sees the original text.
C1_Witness ==
    /\ lastOp = "apply"
    /\ Len(state.diffGroups) >= 2
    /\ AllGroups(state, FALSE)
    /\ \E k \in 1..Len(state.diffGroups) :
          /\ state.diffGroups[k].deleteText # <<>>
          /\ state.diffGroups[k].insertText # <<>>
    /\ finalText = dOriginal
    /\ dOriginal # dCandidate

\* what the reconstruction rule keeps of segment i
KeptText(st, i) ==
    LET segment == st.diffsWithGroup[i]
    IN  IF segment.op = DIFF_EQUAL THEN segment.text
        ELSE IF segment.op = DIFF_INSERT
        THEN (IF GroupOf(st, segment).accepted THEN segment.text ELSE <<>>)
        ELSE (IF GroupOf(st, segment).accepted THEN <<>> ELSE segment.text)

\* what group-wise replacement puts at segment i: the group's inserted or
\* deleted text at the group's first segment, nothing at its other segments
ReplacedText(st, i) ==
    LET segment == st.diffsWithGroup[i]
    IN  IF segment.op = DIFF_EQUAL THEN segment.text
        ELSE IF i > 1 /\ st.diffsWithGroup[i - 1].op # DIFF_EQUAL THEN <<>>
        ELSE IF GroupOf(st, segment).accepted
        THEN GroupOf(st, segment).insertText
        ELSE GroupOf(st, segment).deleteText

\* C2: for any accepted/rejected assignment buildFinalText is, in segment
\* order, every EQUAL text, each INSERT text iff its group is accepted and
\* each DELETE text iff its group is rejected; that is the original text
\* with exactly the accepted groups' deleted text replaced by their
\* inserted text, group by group.
C2_Reconstruction ==
    LET n == Len(state.diffsWithGroup)
    IN  /\ buildFinalText = Flatten([i \in 1..n |-> KeptText(state, i)])
        /\ buildFinalText = Flatten([i \in 1..n |-> ReplacedText(state, i)])
        /\ lastOp \in {"computeDiffs", "apply"} => finalText = buildFinalText

\* C2 witness: two groups, the first a rejected replacement and the second
\* an accepted insertion, applied: the final text is neither the original
\* nor the candidate.
C2_Witness ==
    /\ lastOp = "apply"
    /\ Len(state.diffGroups) = 2
    /\ ~state.diffGroups[1].accepted
    /\ state.diffGroups[2].accepted
    /\ state.diffGroups[1].deleteText # <<>>
    /\ state.diffGroups[1].insertText # <<>>
    /\ state.diffGroups[2].insertText # <<>>
    /\ finalText \notin {dOriginal, dCandidate}

\* the texts of the segments of group id with operation op, in order
GroupTexts(st, id, op) ==
    LET n == Len(st.diffsWithGroup)
    IN  Flatten([i \in 1..n |->
            IF /\ st.diffsWithGroup[i].groupId = <<id>>
               /\ st.diffsWithGroup[i].op = op
            THEN st.diffsWithGroup[i].text ELSE <<>>])

\* C3: EQUAL segments have groupId null and the others a number; two
\* non-EQUAL segments share a groupId iff no EQUAL segment lies between
\* them; ids are 0,1,2,... in order of first appearance; there is exactly
\* one ChangeGroup per id, holding the concatenated DELETE and INSERT
\* texts of its segments, and computeDiffs leaves every group accepted.
C3_Grouping ==
    LET segs == state.diffsWithGroup
        groups == state.diffGroups
        n == Len(segs)
        grouped == {i \in 1..n : segs[i].op # DIFF_EQUAL}
    IN  /\ \A i \in 1..n : (segs[i].op = DIFF_EQUAL) <=> (segs[i].groupId = NULL)
        /\ \A i \in grouped : Len(segs[i].groupId) = 1
        /\ \A i, j \in grouped :
              i < j => ((segs[i].groupId = segs[j].groupId)
                          <=> (\A m \in i..j : segs[m].op # DIFF_EQUAL))
        /\ \A i, j \in grouped : i < j => segs[i].groupId[1] <= segs[j].groupId[1]
        /\ {segs[i].groupId[1] : i \in grouped} = 0..(Len(groups) - 1)
        /\ \A k \in 1..Len(groups) :
              /\ groups[k].id = k - 1
              /\ groups[k].deleteText = GroupTexts(state, k - 1, DIFF_DELETE)
              /\ groups[k].insertText = GroupTexts(state, k - 1, DIFF_INSERT)
        /\ lastOp = "computeDiffs" => AllGroups(state, TRUE)
        /\ lastOp # "none" => n = Len(dDiffs)

\* C3 witness: computeDiffs produced two groups, the first of them made of
\* a DELETE and an INSERT segment.
C3_Witness ==
    /\ lastOp = "computeDiffs"
    /\ Len(state.diffGroups) = 2
    /\ Len(state.diffsWithGroup) = 4
    /\ state.diffsWithGroup[1].op = DIFF_DELETE
    /\ state.diffsWithGroup[2].op = DIFF_INSERT
    /\ state.diffsWithGroup[2].groupId = <<0>>
    /\ state.diffsWithGroup[4].groupId = <<1>>

-----------------------------------------------------------------------------
(* Properties of mapTextToRuns *)

\* the plain text of a run list read paragraph by paragraph, as
\* parseDocxStructure joins it and rebuildDocx groups it
ParagraphedText(rs) ==
    IF rs = <<>> THEN <<>>
    ELSE ParagraphsText(rs, 0, Max({rs[k].paragraphIndex : k \in 1..Len(rs)}))

\* C4 (the claim as stated, on its most favourable reading): for a
\* non-empty run list and non-empty original and new texts, the texts of
\* the returned runs, concatenated in order --- or joined paragraph by
\* paragraph with the separators the plain text has --- are exactly the
\* new text.
C4_TextInvariant ==
    (mPc = "returned" /\ Len(runs) > 0
        /\ originalText # <<>> /\ newText # <<>>) =>
            \/ RunsText(mapped) = newText
            \/ ParagraphedText(mapped) = newText
            \/ Trim(ParagraphedText(mapped)) = newText

\* C5: when the new text is identical to the original text the returned
\* list has the length and order of the original list and every run keeps
\* its text, paragraphIndex, properties and originalRPr.
C5_UnchangedPreserved ==
    (mPc = "returned" /\ originalText = newText) =>
        /\ Len(mapped) = Len(runs)
        /\ \A k \in 1..Len(runs) :
              /\ mapped[k].text = runs[k].text
              /\ mapped[k].paragraphIndex = runs[k].paragraphIndex
              /\ mapped[k].properties = runs[k].properties
              /\ mapped[k].originalRPr = runs[k].originalRPr

\* C5 witness: an unchanged two-paragraph text whose two runs carry rPr
\* nodes went through the copy at lines 281-290.
C5_Witness ==
    /\ mPc = "returned"
    /\ originalText = newText
    /\ originalText # <<>>
    /\ Len(runs) = 2
    /\ runs[2].paragraphIndex = 1
    /\ runs[1].originalRPr # NULL
    /\ Len(mapped) = 2

\* the formatting of run r is the formatting of some run of the list rs
FormattedLikeSome(r, rs) ==
    \E k \in 1..Len(rs) :
        /\ r.originalRPr = rs[k].originalRPr
        /\ r.properties = rs[k].properties

\* C6: with a non-empty original list, every run mapTextToRuns builds or
\* returns carries the originalRPr and properties of some original run.
C6_HandlesFromInput ==
    Len(runs) > 0 =>
        /\ \A i \in 1..Len(newRuns) : FormattedLikeSome(newRuns[i], runs)
        /\ mPc = "returned" =>
              \A i \in 1..Len(mapped) : FormattedLikeSome(mapped[i], runs)

\* C6 witness: the returned list ends with a run inserted when the cursor
\* was past the end of the run list, formatted like the last original run.
C6_Witness ==
    /\ mPc = "returned"
    /\ segIdx = Len(mDiffs)
    /\ Len(mDiffs) >= 2
    /\ mDiffs[Len(mDiffs)].op = DIFF_INSERT
    /\ currentRunIdx = Len(runs)
    /\ Len(runs) = 2
    /\ Len(mapped) >= 2
    /\ mapped[Len(mapped)].originalRPr = <<2>>
    /\ mapped[Len(mapped)].text = <<"x">>

-----------------------------------------------------------------------------
(* Properties of normalizeText *)

\* C7: normalizeText is idempotent: normalizing an already normalized text
\* gives that text back.
C7_Idempotent == nPc = "twice" => nTwice = nOnce

\* C7 witness: a second pass over a non-empty result from which the first
\* pass removed a hyphen break and trimmed outer whitespace.
C7_Witness ==
    /\ nPc = "twice"
    /\ nOnce # <<>>
    /\ nText # <<>> /\ IsSpace(nText[1])
    /\ \E i \in 1..Len(StripCR(nText)) : HyphenBreakEnd(StripCR(nText), i) > 0

Letters(s) == \A i \in 1..Len(s) : s[i] = "a"

\* C8 (the claim as stated): a hyphen immediately followed by a single
\* newline is removed together with the newline ("foo-\nbar" -> "foobar"),
\* and the result holds no carriage return, no run of three or more
\* newlines and no leading or trailing whitespace.
C8_HyphenWrapRejoined ==
    nPc \in {"once", "twice"} =>
        /\ \A k \in 1..(Len(nText) - 3) :
              LET u == SubSeq(nText, 1, k)
                  v == SubSeq(nText, k + 3, Len(nText))
              IN  (/\ Letters(u) /\ Letters(v)
                   /\ nText[k + 1] = "-" /\ nText[k + 2] = "\n")
                      => nOnce = u \o v
        /\ \A i \in 1..Len(nOnce) : nOnce[i] # "\r"
        /\ \A i \in 1..Len(nOnce) : NewlineRunEnd(nOnce, i) - i + 1 < 3
        /\ nOnce # <<>> => ~IsSpace(nOnce[1]) /\ ~IsSpace(nOnce[Len(nOnce)])

-----------------------------------------------------------------------------
(* Properties of fallbackParseJob *)

RECURSIVE SectionTrace(_, _)
SectionTrace(ls, k) ==
    IF k = 0 THEN <<>>
    ELSE LET before == SectionTrace(ls, k - 1)
             current == IF k = 1 THEN "description" ELSE before[k - 1]
         IN  Append(before, SectionAfter(Trim(ToLowerCase(ls[k])), current))

\* the lines among the first Len(trace) that reach the section `name`
RECURSIVE LinesReaching(_, _, _)
LinesReaching(ls, trace, name) ==
    IF trace = <<>> THEN <<>>
    ELSE LinesReaching(ls, SubSeq(trace, 1, Len(trace) - 1), name)
         \o (IF trace[Len(trace)] = name THEN <<ls[Len(trace)]>> ELSE <<>>)

\* C10: fallbackParseJob runs a section state machine starting in
\* 'description': every non-blank line is appended, in input order, to
\* exactly one of the three buffers, the section current after the line's
\* own transition (a heading lands in the section it switches to, a line
\* with no transition stays in the current section); for the listing
\* "Requirements:\n- 5 years Python\n- SQL\n\nBenefits:\nRemote work" the two
\* bullets end in requirements and "Remote work" in additionalContext.
C10_SectionMachine ==
    jPc \in {"loop", "returned"} =>
       /\ LET trace == SectionTrace(lines, lineIdx)
          IN  /\ currentSection =
                    (IF lineIdx = 0 THEN "description" ELSE trace[lineIdx])
              /\ \A name \in SectionNames :
                    sections[name] = LinesReaching(lines, trace, name)
       /\ Len(sections.description) + Len(sections.requirements)
             + Len(sections.additionalContext) = lineIdx
       /\ (rawText = ExampleText /\ jPc = "returned") =>
             /\ sections.description = <<>>
             /\ sections.requirements =
                   <<lines[1], lines[2], lines[3]>>
             /\ sections.additionalContext = <<lines[4], lines[5]>>
             /\ lines[2] = <<"-", " ", "5", " ", "y", "e", "a", "r", "s", " ",
                             "P", "y", "t", "h", "o", "n">>
             /\ lines[3] = <<"-", " ", "S", "Q", "L">>
             /\ lines[5] = <<"R", "e", "m", "o", "t", "e", " ", "w", "o", "r", "k">>

\* C10 witness: the scenario listing has been parsed, its blank line dropped
\* and its five lines spread over requirements and additionalContext.
C10_Witness ==
    /\ jPc = "returned"
    /\ rawText = ExampleText
    /\ Len(lines) = 5
    /\ Len(sections.requirements) = 3
    /\ Len(sections.additionalContext) = 2

-----------------------------------------------------------------------------
(* Properties of parseJobWithLLM *)

\* the whole response, blanks aside, is a JSON value that is not an object
NonObjectJsonValue(t) ==
    JsonParse(t).ok /\ JsonParse(t).kind \in {"null", "number", "string", "array"}

\* C11: parseJobWithLLM fails whenever the LLM response does not contain a
\* JSON object: it returns only when the text it extracted parses, and a
\* response that is invalid JSON or a non-object JSON value (null, number,
\* string, array) never yields a returned result.
C11_NonObjectIsHardFailure ==
    lPc = "returned" =>
       /\ JsonParse(JsonTextOf(responseText)).ok
       /\ ~NonObjectJsonValue(responseText)

-----------------------------------------------------------------------------
(* Properties of the side panel's scrape handlers *)

\* the operation has passed the strategy choice and filled the form
Populated(op) == op.pc = "done" /\ op.used # "none"

\* C12: in scrapeCurrentTab and deepScrapeExa exactly one parsing strategy
\* fills the form.  parseJobWithLLM is attempted at most once, and only when
\* settings.llmEndpoint and settings.llmApiKey are both set; when it was not
\* attempted or it failed, fallbackParseJob has run exactly once and its
\* result is the one used; when it succeeded, fallbackParseJob has not run.
C12_ExactlyOneStrategy ==
    \A i \in {j \in DOMAIN ops : ops[j].kind \in {"scrape", "deep"}} :
        LET op == ops[i]
        IN  /\ op.llmAttempts \in {0, 1}
            /\ op.llmAttempts = 1 =>
                   op.settings.llmEndpoint # <<>> /\ op.settings.llmApiKey # <<>>
            /\ op.pc = "awaitLlm" =>
                   op.llmAttempts = 1 /\ op.fallbackRuns = 0 /\ op.used = "none"
            /\ Populated(op) =>
                   /\ op.used \in {"llm", "fallback"}
                   /\ op.llmOutcome = "ok" =>
                          op.llmAttempts = 1 /\ op.fallbackRuns = 0 /\ op.used = "llm"
                   /\ op.llmOutcome # "ok" =>
                          op.fallbackRuns = 1 /\ op.used = "fallback"
                   /\ op.llmAttempts = 0 => op.llmOutcome = "none"
            /\ ~Populated(op) /\ op.pc = "done" => op.fallbackRuns = 0

\* C12 witness: a page scrape whose LLM strategy failed and whose fallback
\* ran, next to an Exa scrape whose LLM strategy succeeded
C12_Witness ==
    /\ \E i \in DOMAIN ops :
          /\ ops[i].kind = "scrape"
          /\ Populated(ops[i])
          /\ ops[i].llmOutcome = "failed"
          /\ ops[i].fallbackRuns = 1
    /\ \E i \in DOMAIN ops :
          /\ ops[i].kind = "deep"
          /\ Populated(ops[i])
          /\ ops[i].llmOutcome = "ok"
          /\ ops[i].fallbackRuns = 0

-----------------------------------------------------------------------------
(* Properties of extractKeywords *)

\* how often the word is matched in the text, and where it is matched first
Occurrences(word, text) ==
    Cardinality({k \in 1..Len(CountedWords(text)) : CountedWords(text)[k] = word})
FirstSeen(word, text) ==
    Min({k \in 1..Len(CountedWords(text)) : CountedWords(text)[k] = word})

\* word a ranks before word b: more occurrences, or as many and seen first
RanksBefore(a, b, text) ==
    \/ Occurrences(a, text) > Occurrences(b, text)
    \/ /\ Occurrences(a, text) = Occurrences(b, text)
       /\ FirstSeen(a, text) < FirstSeen(b, text)

LeftOut(text, result) ==
    {CountedWords(text)[k] : k \in 1..Len(CountedWords(text))}
        \ {result[k] : k \in 1..Len(result)}

\* C15: extractKeywords(text, limit) returns at most `limit` distinct words,
\* none of them a stop-word, in descending order of their occurrence count
\* with ties in first-seen order, and every returned word occurs at least as
\* often as every non-stop-word that was left out.
C15_TopWordsByCount ==
    kPc = "returned" =>
        /\ Len(kwResult) <= kwLimit
        /\ \A a, b \in 1..Len(kwResult) : kwResult[a] = kwResult[b] => a = b
        /\ \A a \in 1..Len(kwResult) :
              /\ kwResult[a] \notin stopwords
              /\ Occurrences(kwResult[a], kwText) > 0
        /\ \A a, b \in 1..Len(kwResult) :
              a < b => RanksBefore(kwResult[a], kwResult[b], kwText)
        /\ \A a \in 1..Len(kwResult) :
              \A w \in LeftOut(kwText, kwResult) :
                  Occurrences(kwResult[a], kwText) >= Occurrences(w, kwText)

\* the same statement for texts without a word that names an inherited
\* property of `counts`
C15_HoldsForOwnKeys ==
    (\A w \in InheritedProperties : Occurrences(w, kwText) = 0) => C15_TopWordsByCount

-----------------------------------------------------------------------------
(* Properties of generateTailoredResume and of the three handlers together *)

TailoringFailedStatus ==
    "Tailoring failed. Check your OpenAI API key and try again."

\* C13 (the claim as stated): when the LLM call of generateTailoredResume
\* fails (non-success response, empty content, an llmMode that selects no
\* caller), the operation ends with the result of fallbackTailor stored as
\* the tailored text, and never with the status 'Tailoring failed'.
C13_FailureDegradesToFallback ==
    /\ elements.status # TailoringFailedStatus
    /\ \A i \in DOMAIN ops :
          (/\ ops[i].kind = "tailor"
           /\ ops[i].pc = "done"
           /\ ops[i].llmOutcome = "failed")
              => ops[i].fallbackRuns = 1 /\ ops[i].used = "fallback"

\* the handler was stopped by one of its early returns
Stopped(op) == op.pc = "done" /\ op.used = "none" /\ op.llmAttempts = 0

\* C14: with settings.llmApiKey and settings.exaApiKey both empty, no
\* sequence of scrapeCurrentTab, deepScrapeExa and generateTailoredResume
\* issues a network request: a scrape that fills the form used
\* fallbackParseJob, a tailoring that stored a text used fallbackTailor, and
\* deepScrapeExa stops before it fetches.
C14_NoKeysNoNetwork ==
    (settings.llmApiKey = <<>> /\ settings.exaApiKey = <<>>) =>
        /\ netCalls = <<>>
        /\ \A i \in DOMAIN ops :
              /\ ops[i].llmAttempts = 0
              /\ ops[i].pc \notin {"awaitLlm", "awaitExa"}
              /\ ops[i].used \in {"none", "fallback"}
              /\ ops[i].kind = "deep" => ops[i].used = "none"
              /\ (ops[i].kind = "tailor" /\ ops[i].pc = "done" /\ ~Stopped(ops[i]))
                     => ops[i].used = "fallback" /\ ops[i].fallbackRuns = 1

\* C14 witness: without keys, deepScrapeExa has stopped and
\* generateTailoredResume has stored the text of fallbackTailor
C14_Witness ==
    /\ settings.llmApiKey = <<>> /\ settings.exaApiKey = <<>>
    /\ \E i \in DOMAIN ops : ops[i].kind = "deep" /\ Stopped(ops[i])
    /\ \E i \in DOMAIN ops :
          /\ ops[i].kind = "tailor"
          /\ ops[i].used = "fallback"
          /\ state.tailoredText # <<>>
    /\ elements.status = "Tailored resume ready. Review changes below."

InFlight == {i \in DOMAIN ops : ops[i].pc # "done"}

\* C18 (the claim as stated): at most one of generateTailoredResume,
\* scrapeCurrentTab and deepScrapeExa is in flight at any time.
C18_OneOperationInFlight ==
    Cardinality(InFlight) <= 1

\* operation i records the failure of its LLM strategy in this step
FailsNow(i) ==
    /\ ops'[i].llmOutcome = "failed"
    /\ i \in DOMAIN ops => ops[i].llmOutcome # "failed"

\* operation i starts its LLM strategy in this step
StartsLlmNow(i) ==
    /\ ops'[i].pc = "awaitLlm"
    /\ i \in DOMAIN ops => ops[i].pc # "awaitLlm"

JobFieldsUntouched == \A field \in JobFields : elements'[field] = elements[field]

-----------------------------------------------------------------------------
(* Properties of rebuildDocx *)

\* the checks before the one that fails have passed
ReachesRunCheck == docx.jsZip /\ docx.given
ReachesDocumentLookup ==
    /\ ReachesRunCheck
    /\ modifiedRuns.given /\ Len(modifiedRuns.list) > 0
    /\ docx.isZip
ReachesParagraphCheck ==
    ReachesDocumentLookup /\ docx.hasDocument /\ docx.readable /\ docx.wellFormed

\* C16: rebuildDocx reports each structural failure as its own error and
\* changes nothing.  A missing or empty run list gives 'No modified runs
\* provided', an archive without word/document.xml gives 'Document structure
\* corrupted: missing word/document.xml', a document without paragraphs
\* gives 'No paragraphs found in document during rebuild'; the messages
\* leave the function as they are, not behind 'Failed to rebuild DOCX', the
\* archive's document is as it was and no blob is returned.
C16_StructuralErrorsVerbatim ==
    rbPc \notin {"idle", "called"} =>
        /\ (ReachesRunCheck /\ (~modifiedRuns.given \/ Len(modifiedRuns.list) = 0))
               => rbPc = "threw" /\ rbError = NoModifiedRuns
        /\ (ReachesDocumentLookup /\ ~docx.hasDocument /\ rbPc # "loading")
               => rbPc = "threw" /\ rbError = MissingDocumentXml
        /\ (ReachesParagraphCheck /\ Len(docx.paragraphs) = 0
                /\ rbPc \notin {"loading", "reading"})
               => rbPc = "threw" /\ rbError = NoParagraphs
        /\ (rbPc = "threw"
                /\ (\/ ~modifiedRuns.given \/ Len(modifiedRuns.list) = 0
                    \/ ~docx.hasDocument
                    \/ Len(docx.paragraphs) = 0))
               => /\ zipDocument = docx.paragraphs
                  /\ rebuilt = NoBlob
                  /\ ~StartsAt(rbError, 1, FailedToRebuild)

\* C16 witness: a document without paragraphs was handed over with runs, and
\* the call has thrown
C16_Witness ==
    /\ rbPc = "threw"
    /\ ReachesParagraphCheck
    /\ Len(docx.paragraphs) = 0
    /\ rbError = NoParagraphs

-----------------------------------------------------------------------------
(* Properties of waitForTabLoad *)

\* the events onUpdated has received that are the awaited one
Awaited ==
    {k \in 1..Len(delivered) :
        delivered[k][1] = awaitedTab /\ delivered[k][2] = "complete"}

\* the promise and the registrations agree at every moment
SettledOnceSoFar ==
    /\ settleCalls <= 1
    /\ promise = "none" => ~listening /\ ~timerSet /\ settleCalls = 0
    /\ promise = "pending" =>
           listening /\ timerSet /\ settleCalls = 0 /\ Awaited = {}
    /\ promise = "resolved" =>
           /\ ~listening /\ ~timerSet /\ settleCalls = 1
           /\ Awaited = {Len(delivered)}
    /\ promise = "rejected" =>
           /\ ~listening /\ ~timerSet /\ settleCalls = 1
           /\ Awaited = {}
           /\ elapsedMs >= timeoutMs

\* C17: waitForTabLoad settles exactly once.  It resolves on the first
\* tabs.onUpdated event for the awaited tab with status 'complete', or
\* rejects when the timeout fires; from then on the listener is removed and
\* the timer is cleared; an event for another tab or with another status
\* neither settles it nor removes the listener; and it does settle.
C17_SettlesExactlyOnce ==
    /\ []SettledOnceSoFar
    /\ <>(promise \in {"resolved", "rejected"})

\* C17 witness: the promise has resolved on the awaited event after the
\* listener had received an event of another tab and one with another status
C17_Witness ==
    /\ promise = "resolved"
    /\ Len(delivered) = 3
    /\ \E k \in 1..2 : delivered[k][1] # awaitedTab /\ delivered[k][2] = "complete"
    /\ \E k \in 1..2 : delivered[k][1] = awaitedTab /\ delivered[k][2] = "loading"
    /\ elapsedMs > 0

-----------------------------------------------------------------------------
(* Properties of parseDocxStructure *)

\* the texts of the returned runs in document order, with one newline
\* between consecutive paragraphs of the document
JoinedRuns ==
    ParagraphsText(structure.runs, 0, Len(psParagraphs) - 1)

\* C20 (the claim as stated): concatenating the texts of all returned runs
\* in document order, with one newline between consecutive paragraphs,
\* gives exactly the returned plainText.
C20_RunsGivePlainText ==
    psPc = "done" => structure.plainText = JoinedRuns

\* what does hold for C20: the returned plainText is that concatenation
\* with the white space at its two ends trimmed away
C20_HoldsUpToTrim ==
    psPc = "done" => structure.plainText = Trim(JoinedRuns)

\* a returned structure whose plainText is shorter than the text of its runs
C20_TrimmedAway ==
    /\ psPc = "done"
    /\ Len(structure.plainText) < Len(JoinedRuns)

-----------------------------------------------------------------------------
(* Properties of the change groups between two computeDiffs runs *)

\* the groups whose accepted flag a step changes
FlagChanged ==
    {k \in 1..Len(state.diffGroups) :
        state'.diffGroups[k].accepted # state.diffGroups[k].accepted}

\* a step leaves every group's id, deleteText and insertText, the number of
\* groups, every diff segment and both texts as they were
GroupsKeepTheirContent ==
    /\ state'.diffsWithGroup = state.diffsWithGroup
    /\ state'.resumeText = state.resumeText
    /\ state'.tailoredText = state.tailoredText
    /\ Len(state'.diffGroups) = Len(state.diffGroups)
    /\ \A k \in 1..Len(state.diffGroups) :
          /\ state'.diffGroups[k].id = state.diffGroups[k].id
          /\ state'.diffGroups[k].deleteText = state.diffGroups[k].deleteText
          /\ state'.diffGroups[k].insertText = state.diffGroups[k].insertText

\* C21: between two computeDiffs runs the change groups are modified only
\* by the accept toggle.  A toggle changes the accepted flag of one group
\* and nothing else; applyDiffSelections (buildFinalText) leaves the whole
\* session object unchanged; and what computeDiffs stored is still there
\* after renderDiffs has drawn it.
C21_OnlyTogglesChangeGroups ==
    [][/\ lastOp' = "toggle" =>
              GroupsKeepTheirContent /\ Cardinality(FlagChanged) = 1
       /\ lastOp' = "apply" => state' = state
       /\ lastOp' = "computeDiffs" =>
              /\ state'.diffGroups = computeDiffs(dDiffs).groups
              /\ state'.diffsWithGroup = computeDiffs(dDiffs).diffsWithGroup]_vars

\* C21 witness: the selections were applied while one of two groups was
\* rejected, and both groups are still there
C21_Witness ==
    /\ lastOp = "apply"
    /\ Len(state.diffGroups) = 2
    /\ ~state.diffGroups[1].accepted
    /\ state.diffGroups[2].accepted
    /\ finalText # state.tailoredText

-----------------------------------------------------------------------------
(* Properties of scrapeUrl *)

ScrapeSettled == sPromise \in {"fulfilled", "rejected"}

\* C22 (as the code has it): once scrapeUrl's promise has settled, on every
\* outcome, chrome.tabs.remove has been called once for the tab that was
\* created, and for no tab when none was created; a URL that does not start
\* with http:// or https:// creates no tab and is rejected with its own
\* message.
C22_RemoveCalledBeforeSettling ==
    /\ ScrapeSettled =>
          \/ sTab = "none" /\ removeCalls = 0
          \/ sTab \in {"closing", "closed"} /\ removeCalls = 1
    /\ ~ScrapeSettled => removeCalls = 0
    /\ ~ValidUrl(sUrl) =>
          /\ sTab = "none"
          /\ sPc = "done" => sPromise = "rejected" /\ sError = InvalidUrl

\* C22 witness: the load timed out and the tab that was created is closed
C22_Witness ==
    /\ sPromise = "rejected"
    /\ sError = TimedOut
    /\ removeCalls = 1
    /\ sTab = "closed"

\* C22 (the claim as stated): every tab scrapeUrl has created is gone when
\* its promise settles.
C22_TabGoneWhenSettled ==
    ScrapeSettled => sTab \in {"none", "closed"}

\* C29 (the claim as stated): when the created tab has reached status
\* 'complete' before the timeout, scrapeUrl has gone on to inject the
\* content script, whenever the 'complete' event came.
C29_LoadedTabIsScraped ==
    (loaded /\ ScrapeSettled) => injectCalls = 1

\* what does hold for C29: a tab that finished loading is left unscraped
\* only when its 'complete' event came before the listener was added
C29_HoldsOnceListening ==
    (loaded /\ ScrapeSettled /\ injectCalls = 0) =>
        /\ sError = TimedOut
        /\ \A k \in 1..Len(delivered) :
              ~Completes(delivered[k][1], delivered[k][2], awaitedTab)

\* the load finished unseen and scrapeUrl gave up on the timeout
C29_LostEvent ==
    /\ loaded
    /\ sError = TimedOut
    /\ injectCalls = 0

-----------------------------------------------------------------------------
(* Properties of a successful rebuildDocx *)

\* paragraph p of the rebuilt document holds one run node for every new run
\* of that paragraph, with the new runs' texts in order
NodesMatchRuns(p) ==
    LET paraRuns == ParaRuns(modifiedRuns.list, p - 1)
        nodes == rebuilt[1][p]
    IN  /\ Len(nodes) = Len(paraRuns)
        /\ \A k \in 1..Len(nodes) : nodes[k].text = paraRuns[k].text

\* C23 (the claim as stated): after rebuildDocx has succeeded, every
\* paragraph holds exactly as many run nodes as there are new runs with its
\* paragraphIndex, with the new runs' texts in order, and the formatting
\* block of every run node is the formatting handle of the new run placed
\* in it.
C23_NodesCarryNewRuns ==
    rbPc = "returned" =>
        \A p \in 1..Len(rebuilt[1]) :
            /\ NodesMatchRuns(p)
            /\ \A k \in 1..Len(rebuilt[1][p]) :
                  rebuilt[1][p][k].rPr =
                      ParaRuns(modifiedRuns.list, p - 1)[k].originalRPr

\* what does hold for C23: the counts and the texts, and the formatting
\* block of every node whose new run has a handle
C23_HoldsForRunsWithHandle ==
    rbPc = "returned" =>
        \A p \in 1..Len(rebuilt[1]) :
            /\ NodesMatchRuns(p)
            /\ \A k \in 1..Len(rebuilt[1][p]) :
                  LET newRun == ParaRuns(modifiedRuns.list, p - 1)[k]
                  IN  newRun.originalRPr # NULL =>
                          rebuilt[1][p][k].rPr = newRun.originalRPr

\* a new run without a handle has been written into a node that had a
\* formatting block, and the node has kept it
C23_OldFormattingKept ==
    /\ rbPc = "returned"
    /\ Len(docx.paragraphs) = 2
    /\ Len(ParaRuns(modifiedRuns.list, 0)) = 1
    /\ ParaRuns(modifiedRuns.list, 0)[1].originalRPr = NULL
    /\ rebuilt[1][1][1].rPr = docx.paragraphs[1][1].rPr
    /\ rebuilt[1][1][1].rPr # NULL

-----------------------------------------------------------------------------
(* Properties of the segments of mapTextToRuns *)

\* the number of run characters before the cursor
CursorOffset ==
    Len(RunsText(SubSeq(runs, 1, currentRunIdx))) + currentRunCharIdx

\* the run whose formatting an INSERT at the cursor is to take
RunAtCursor ==
    runs[IF currentRunIdx < Len(runs) THEN currentRunIdx + 1 ELSE Len(runs)]

\* this step handles an INSERT segment
InsertNow ==
    /\ mPc = "forEach"
    /\ segIdx' = segIdx + 1
    /\ mDiffs[segIdx + 1].op = DIFF_INSERT

\* an INSERT pushes one run with the segment's text and the formatting
\* handle, properties and paragraphIndex of the run at the cursor, and
\* leaves the cursor where it is
InsertPushesOneRun ==
    InsertNow =>
        /\ Len(newRuns') = Len(newRuns) + 1
        /\ SubSeq(newRuns', 1, Len(newRuns)) = newRuns
        /\ newRuns'[Len(newRuns')].text = mDiffs[segIdx + 1].text
        /\ newRuns'[Len(newRuns')].originalRPr = RunAtCursor.originalRPr
        /\ newRuns'[Len(newRuns')].properties = RunAtCursor.properties
        /\ newRuns'[Len(newRuns')].paragraphIndex = RunAtCursor.paragraphIndex
        /\ currentRunIdx' = currentRunIdx
        /\ currentRunCharIdx' = currentRunCharIdx

\* a step of a DELETE pushes nothing and moves the cursor by as many
\* characters as it takes off the deleted text
DeleteSkipsRunText ==
    mPc = "delete" =>
        /\ newRuns' = newRuns
        /\ CursorOffset' = CursorOffset + Len(remaining) - Len(remaining')

\* C24 (the claim as stated): an INSERT segment produces exactly one output
\* run with the inserted text and the formatting handle, properties and
\* paragraphIndex of the run at the cursor (the last run when the cursor is
\* past the end) and never moves the cursor; a DELETE segment produces no
\* output run and moves the cursor by exactly the deleted length.
C24_InsertAndDelete ==
    [][/\ InsertPushesOneRun
       /\ DeleteSkipsRunText
       /\ (mPc = "delete" /\ mPc' = "forEach") => remaining = <<>>]_vars

\* what does hold for C24: everything about INSERT, and a DELETE moves the
\* cursor by the deleted length unless the run list ends first
C24_HoldsUntilRunsEnd ==
    [][/\ InsertPushesOneRun
       /\ DeleteSkipsRunText
       /\ (mPc = "delete" /\ mPc' = "forEach") =>
              remaining = <<>> \/ currentRunIdx = Len(runs)]_vars

\* a DELETE has ended with deleted text left over
C24_DeleteCutShort ==
    /\ mPc = "forEach"
    /\ segIdx > 0
    /\ mDiffs[segIdx].op = DIFF_DELETE
    /\ remaining # <<>>

\* the original runs a character belongs to
RunsOfChar(c) == {k \in 1..Len(runs) : c = RunLetter(k)}

\* every character of an output run that comes from an original run is in a
\* run with that original run's formatting handle, properties and
\* paragraphIndex
PieceOfOneRun(piece) ==
    \A i \in 1..Len(piece.text) :
        \A k \in RunsOfChar(piece.text[i]) :
            /\ piece.originalRPr = runs[k].originalRPr
            /\ piece.properties = runs[k].properties
            /\ piece.paragraphIndex = runs[k].paragraphIndex

\* C25 (the claim as stated): every character of an EQUAL segment is
\* emitted in an output run that has the formatting handle and
\* paragraphIndex of the original run that contained it; no output run
\* mixes characters of two original runs.
C25_EqualTextKeepsItsRun ==
    /\ \A i \in 1..Len(newRuns) : PieceOfOneRun(newRuns[i])
    /\ (mPc = "forEach" /\ segIdx > 0 /\ mDiffs[segIdx].op = DIFF_EQUAL) =>
          \A i \in 1..Len(remaining) : RunsOfChar(remaining[i]) = {}

\* what does hold for C25: no output run mixes characters of two original
\* runs, and every piece carries the handle of the run its characters
\* come from
C25_HoldsForEmittedPieces ==
    /\ \A i \in 1..Len(newRuns) : PieceOfOneRun(newRuns[i])
    /\ mPc = "returned" => \A i \in 1..Len(mapped) : PieceOfOneRun(mapped[i])

\* an EQUAL segment has ended with a character of a run not emitted
C25_EqualTextLost ==
    /\ mPc = "forEach"
    /\ segIdx > 0
    /\ mDiffs[segIdx].op = DIFF_EQUAL
    /\ \E i \in 1..Len(remaining) : RunsOfChar(remaining[i]) # {}

\* C27: when the texts of the original runs, concatenated, are the original
\* plain text and both texts are non-empty, the texts of the returned runs,
\* concatenated, are the new plain text, whatever edit script the diff
\* library answers with.
C27_TextPreservedWhenAligned ==
    (mPc = "returned" /\ Len(runs) > 0 /\ RunsText(runs) = originalText
        /\ originalText # <<>> /\ newText # <<>>) =>
            RunsText(mapped) = newText

\* C27 witness: an aligned two-run text was mapped through a script that
\* splits a run, deletes and inserts
C27_Witness ==
    /\ mPc = "returned"
    /\ Len(runs) = 2
    /\ RunsText(runs) = originalText
    /\ Len(originalText) >= 3
    /\ \E i, j, k \in 1..Len(mDiffs) :
          /\ mDiffs[i].op = DIFF_EQUAL
          /\ mDiffs[j].op = DIFF_DELETE
          /\ mDiffs[k].op = DIFF_INSERT
    /\ Len(mapped) >= 2
    /\ RunsText(mapped) = newText

\* the cursor is inside the run list
CursorInBounds ==
    /\ 0 <= currentRunIdx /\ currentRunIdx <= Len(runs)
    /\ 0 <= currentRunCharIdx
    /\ currentRunIdx < Len(runs) =>
          currentRunCharIdx <= Len(runs[currentRunIdx + 1].text)

\* a step never moves the cursor back
CursorForward ==
    \/ currentRunIdx' > currentRunIdx
    \/ /\ currentRunIdx' = currentRunIdx
       /\ currentRunCharIdx' >= currentRunCharIdx

\* C28: mapTextToRuns terminates for every input, run lists with empty runs
\* and original texts longer than the runs' text among them; the cursor
\* stays in bounds and only moves forward.
C28_TerminatesInBounds ==
    /\ []CursorInBounds
    /\ [][CursorForward]_vars
    /\ <>(mPc = "returned")

\* C28 witness: the function has returned after its cursor reached the end
\* of the run list with original text left that no run holds
C28_Witness ==
    /\ mPc = "returned"
    /\ Len(runs) = 2
    /\ currentRunIdx = 2
    /\ Len(originalText) > Len(RunsText(runs))
    /\ remaining # <<>>
    /\ mapped = newRuns
    /\ Len(mDiffs) > 0

-----------------------------------------------------------------------------
(* Properties of the section transitions of fallbackParseJob *)

\* the line the loop is about to classify, lower-cased and trimmed as the
\* three tests see it
TestedLine == Trim(ToLowerCase(lines[lineIdx + 1]))

IsRequirementsLine(line) ==
    SomeIncluded(line, requirementsKeywords) \/ MatchesStart(line, requirementsStems)
IsContextLine(line) ==
    SomeIncluded(line, contextKeywords) \/ MatchesStart(line, contextStems)
IsDescriptionLine(line) ==
    SomeIncluded(line, descriptionKeywords)

\* C26: a line changes the current section only if it is shorter than 100
\* characters (as tested: lower-cased and trimmed), and the tests are tried
\* in the order requirements, additionalContext, description: a short line
\* with a requirements keyword switches to requirements even when it has a
\* context keyword too, and a line of 100 or more characters leaves the
\* section as it is whatever keywords it has.
C26_SectionPriority ==
    [][(jPc = "loop" /\ lineIdx' = lineIdx + 1) =>
          /\ currentSection' # currentSection => Len(TestedLine) < 100
          /\ Len(TestedLine) >= 100 => currentSection' = currentSection
          /\ Len(TestedLine) < 100 =>
                currentSection' =
                    IF IsRequirementsLine(TestedLine) THEN "requirements"
                    ELSE IF IsContextLine(TestedLine) THEN "additionalContext"
                    ELSE IF IsDescriptionLine(TestedLine) THEN "description"
                    ELSE currentSection]_vars

\* C26 witness: a short line with both a requirements and a context keyword
\* has switched to requirements, and a line of 100 characters with a
\* keyword has been read in additionalContext without changing it
C26_Witness ==
    /\ jPc = "loop"
    /\ lineIdx = 2
    /\ Len(lines) = 2
    /\ Len(lines[2]) = 100
    /\ IsRequirementsLine(Trim(ToLowerCase(lines[2])))
    /\ lines[1] = <<"B", "e", "n", "e", "f", "i", "t", "s", ":">>
    /\ currentSection = "additionalContext"

-----------------------------------------------------------------------------
(* Properties of the review session *)

\* the stored diff is a diff of the stored texts
StoredDiffMatches(st) ==
    /\ BuildFinalTextOf(WithAllAccepted(st, FALSE)) = st.resumeText
    /\ BuildFinalTextOf(WithAllAccepted(st, TRUE)) = st.tailoredText

\* C30: whenever the session holds a diff, it is the diff of the stored
\* texts: with every group rejected buildFinalText yields the current
\* state.resumeText, and with every group accepted it yields the current
\* state.tailoredText, after any sequence of extraction, tailoring, accept
\* toggles and apply.
C30_StoredDiffIsOfStoredTexts ==
    Len(state.diffsWithGroup) > 0 => StoredDiffMatches(state)

\* C30, what holds: accepting every group always yields the stored
\* state.tailoredText, and the only step after which rejecting every group
\* no longer yields state.resumeText is an extraction that stores another
\* resume text next to the diff it leaves as it was.
C30_HoldsUntilNextExtraction ==
    /\ [](Len(state.diffsWithGroup) > 0 =>
             BuildFinalTextOf(WithAllAccepted(state, TRUE)) = state.tailoredText)
    /\ [][(StoredDiffMatches(state) /\ ~StoredDiffMatches(state')) =>
             /\ lastOp' = "extract"
             /\ state'.resumeText # state.resumeText
             /\ state'.diffsWithGroup = state.diffsWithGroup
             /\ state'.diffGroups = state.diffGroups]_vars

\* C30: a resume was extracted after a tailoring: the session holds the new
\* resume text next to the diff of the old one, and rejecting every group
\* and applying shows the old resume
C30_StaleDiff ==
    /\ lastOp = "apply"
    /\ Len(state.diffsWithGroup) > 0
    /\ AllGroups(state, FALSE)
    /\ Len(state.diffGroups) > 0
    /\ state.resumeText = OtherResumeText
    /\ finalText = ResumeText

====
